---- MODULE Spec2Model ----
(***************************************************************************)
(* A model of goauditparser: the batch orchestrator GoAuditParser_Start,   *)
(* its workers GoAuditParser_Thread, the parse cache (_GAPParseCache.json) *)
(* and the normal-style line parser.                                       *)
(*                                                                         *)
(* Text is modelled as a sequence of tokens (TLA+ strings): a file name    *)
(* such as host-agent-payload-type.xml is                                  *)
(*   << "host", "-", "agent", "-", "payload", "-", "type", ".xml" >>       *)
(* and string operations (Split, Join, Contains, ReplaceAll, TrimSuffix)   *)
(* work on the tokens.                                                     *)
(***************************************************************************)
EXTENDS Integers, Sequences, FiniteSets, TLC

(* ------------------------------ bounds -------------------------------- *)

\* The largest number of input files of a batch run.
MaxFiles == 3

\* The largest value of the -t option that is tried (0 stands for "< 1").
MaxThreads == 3

(* ------------------------------ strings ------------------------------- *)

\* strings.Contains on tokens: which phrase lies inside which token.
SubPhrase ==
  { <<"not rename", "Could not rename">>,
    <<"not parse file", "Could not parse file">> }

Within(p, t) == t = p \/ <<p, t>> \in SubPhrase

Contains(s, p) == \E k \in 1..Len(s) : Within(p, s[k])

HasSuffix(s, p) == Len(s) > 0 /\ s[Len(s)] = p

HasPrefix(s, p) == Len(s) > 0 /\ s[1] = p

TrimSuffix(s, p) == IF HasSuffix(s, p) THEN SubSeq(s, 1, Len(s) - 1) ELSE s

\* strings.TrimPrefix with a prefix of several tokens
TrimPrefixSeq(s, p) ==
  IF Len(s) >= Len(p) /\ SubSeq(s, 1, Len(p)) = p
  THEN SubSeq(s, Len(p) + 1, Len(s)) ELSE s

\* strings.TrimSuffix with a suffix of several tokens
TrimSuffixSeq(s, p) ==
  IF Len(s) >= Len(p) /\ SubSeq(s, Len(s) - Len(p) + 1, Len(s)) = p
  THEN SubSeq(s, 1, Len(s) - Len(p)) ELSE s

\* strings.ReplaceAll(s, old, new) for single tokens
ReplaceAll(s, old, new) == [k \in 1..Len(s) |-> IF s[k] = old THEN new ELSE s[k]]

\* strings.Index for a token: position of the first occurrence, 0 if none
IndexOf(s, p) ==
  IF \E k \in 1..Len(s) : s[k] = p
  THEN CHOOSE k \in 1..Len(s) : s[k] = p /\ \A j \in 1..(k - 1) : s[j] # p
  ELSE 0

RECURSIVE Split(_, _)
\* strings.Split(s, sep): the pieces between the separators (always >= 1 piece)
Split(s, sep) ==
  LET k == IndexOf(s, sep)
  IN IF k = 0 THEN << s >>
     ELSE << SubSeq(s, 1, k - 1) >> \o Split(SubSeq(s, k + 1, Len(s)), sep)

RECURSIVE Join(_, _)
\* strings.Join(parts, sep)
Join(parts, sep) ==
  IF Len(parts) = 0 THEN << >>
  ELSE IF Len(parts) = 1 THEN parts[1]
  ELSE parts[1] \o << sep >> \o Join(Tail(parts), sep)

\* strings.TrimSpace: blanks at both ends go
RECURSIVE TrimLeft(_)
TrimLeft(s) == IF Len(s) > 0 /\ s[1] = " " THEN TrimLeft(Tail(s)) ELSE s

RECURSIVE TrimRight(_)
TrimRight(s) ==
  IF Len(s) > 0 /\ s[Len(s)] = " " THEN TrimRight(SubSeq(s, 1, Len(s) - 1)) ELSE s

TrimSpace(s) == TrimRight(TrimLeft(s))

\* a sequence without its k-th element: append(files[:i], files[i+1:]...)
RemoveAt(s, k) == SubSeq(s, 1, k - 1) \o SubSeq(s, k + 1, Len(s))

RECURSIVE SumSeq(_)
SumSeq(s) == IF Len(s) = 0 THEN 0 ELSE s[1] + SumSeq(Tail(s))

SeqToSet(s) == { s[k] : k \in 1..Len(s) }

\* filepath.Base: what follows the last path separator
Base(s) ==
  IF \E k \in 1..Len(s) : s[k] = "/"
  THEN LET k == CHOOSE j \in 1..Len(s) : s[j] = "/" /\ \A m \in (j + 1)..Len(s) : s[m] # "/"
       IN SubSeq(s, k + 1, Len(s))
  ELSE s

(* ---------------------------- parse cache ----------------------------- *)
(* Parse_Config_JSON for the output directory of the run: XMLFiles, a      *)
(* sequence of Parse_Config_XMLFile [InputFileName, InputFileSize, Status].*)
(* An os.FileInfo is a record with fields name and size.                   *)

\* the index of the first cache entry with the file's name and size, or 0
XMLFileIndex(xmlfile, config) ==
  LET hit(k) == /\ config[k].InputFileSize = xmlfile.size
                /\ config[k].InputFileName = Base(xmlfile.name)
  IN IF \E k \in 1..Len(config) : hit(k)
     THEN CHOOSE k \in 1..Len(config) : hit(k) /\ \A j \in 1..(k - 1) : ~hit(j)
     ELSE 0

\* the status ParseConfigUpdateXMLParse derives from a worker's message
StatusOfMessage(msg) ==
  LET s0 == msg
      s1 == IF Contains(msg, "already exists") THEN <<"parsed">> ELSE s0
      s2 == IF Contains(msg, "parsed successfully") THEN <<"parsed">> ELSE s1
      s3 == IF Contains(msg, "Issues file") THEN <<"ignored/issues">> ELSE s2
      s4 == IF Contains(msg, "is empty") THEN <<"ignored/empty">> ELSE s3
      s5 == IF Contains(msg, "not rename") THEN <<"failed/rename">> ELSE s4
      s6 == IF Contains(msg, "not parse file") THEN <<"failed/error">> ELSE s5
      s7 == IF Contains(msg, "does not exist") THEN <<"failed/notexist">> ELSE s6
      s8 == IF Contains(msg, "File was split") THEN <<"split">> ELSE s7
  IN s8

\* ParseConfigUpdateXMLParse(dirIndex, xmlfile, msg, extra, config)
ParseConfigUpdateXMLParse(xmlfile, msg, config) ==
  LET found == XMLFileIndex(xmlfile, config)
      cfg1 == IF found = 0
              THEN Append(config, [InputFileName |-> Base(xmlfile.name),
                                   InputFileSize |-> xmlfile.size,
                                   Status |-> << >>])
              ELSE config
      xmlFileIndex == IF found = 0 THEN Len(cfg1) ELSE found
  IN [cfg1 EXCEPT ![xmlFileIndex].Status = StatusOfMessage(msg)]

\* InputConfig_GetXMLParseConfig: the config it returns
GetXMLParseConfig_Config(xmlfile, config) ==
  IF XMLFileIndex(xmlfile, config) # 0 THEN config
  ELSE Append(config, [InputFileName |-> Base(xmlfile.name),
                       InputFileSize |-> xmlfile.size,
                       Status |-> <<"failed/notattemptedyet">>])

\* InputConfig_GetXMLParseConfig: the Parse_Config_XMLFile it returns
GetXMLParseConfig_File(xmlfile, config) ==
  LET cfg1 == GetXMLParseConfig_Config(xmlfile, config)
  IN cfg1[XMLFileIndex(xmlfile, cfg1)]

(* --------------------------- output path ------------------------------ *)
(* options is a record; the fields used here are InputPath, OutputPath,    *)
(* ParseAltHostname, ParseAltAgentID (<< >> when not given) and            *)
(* ParseCSVFormat.                                                         *)

\* tokens that stand for a run of 22 letters and digits
Alnum22 == { "AGENTID22a", "AGENTID22b" }

\* regexp ([A-Za-z0-9]{22})_(.+) on the input directory's base name:
\* << agentid, hostname >> of the first match, << >> when there is none
Grabstuff2Parent(dirbase) ==
  LET hit(k) == dirbase[k] \in Alnum22 /\ k + 2 <= Len(dirbase) /\ dirbase[k + 1] = "_"
  IN IF \E k \in 1..Len(dirbase) : hit(k)
     THEN LET k == CHOOSE j \in 1..Len(dirbase) : hit(j) /\ \A m \in 1..(j - 1) : ~hit(m)
          IN << << dirbase[k] >>, SubSeq(dirbase, k + 2, Len(dirbase)) >>
     ELSE << >>

\* the parts hostname, agentid, payload that GoAuditParser_Thread derives
\* from the file name and the options
FileNameParts(xmlFileName, options) ==
  LET basefilename == TrimSuffix(xmlFileName, ".xml")
      parts == Split(basefilename, "-")
      n == Len(parts)
      alt(dflt, over) == IF Len(over) > 0 THEN over ELSE dflt
  IN IF Contains(basefilename, ".urn_uuid_") \/ n < 4
     THEN LET sub == Grabstuff2Parent(Base(options.InputPath))
              hostname0 == IF Len(sub) > 1 THEN sub[2] ELSE <<"HOSTNAMEPLACEHOLDER">>
              agentid0 == IF Len(sub) > 1 THEN sub[1] ELSE <<"AGENTIDPLACEHOLDER0000">>
          IN [hostname |-> alt(hostname0, options.ParseAltHostname),
              agentid |-> alt(agentid0, options.ParseAltAgentID),
              payload |->
                IF Contains(basefilename, "_spxml")
                THEN TrimSuffixSeq(
                       TrimPrefixSeq(basefilename,
                         <<"HOSTNAMEPLACEHOLDER", "-", "AGENTIDPLACEHOLDER0000", "-">>),
                       <<"-", "UNCONFIRMED">>)
                ELSE ReplaceAll(basefilename, "-", "_")]
     ELSE LET payload0 == parts[n - 1]
              indx == IndexOf(payload0, "_spxml")
          IN [hostname |-> alt(Join(SubSeq(parts, 1, n - 3), "-"), options.ParseAltHostname),
              agentid |-> alt(parts[n - 2], options.ParseAltAgentID),
              payload |->
                IF options.ParseCSVFormat = 2
                THEN IF indx # 0
                     THEN <<"0">> \o SubSeq(payload0, indx, Len(payload0))
                     ELSE <<"0">>
                ELSE payload0]

\* csvFilePath once the audit type is known; csvFilePathTemp adds ".incomplete"
CsvFilePath(xmlFileName, auditType, options) ==
  LET p == FileNameParts(xmlFileName, options)
  IN options.OutputPath \o <<"/">> \o p.hostname \o <<"-">> \o p.agentid \o <<"-">>
       \o p.payload \o <<"-">> \o auditType \o <<".csv">>

CsvFilePathTemp(xmlFileName, auditType, options) ==
  CsvFilePath(xmlFileName, auditType, options) \o <<".incomplete">>

(* ------------------------------- lines -------------------------------- *)
(* A line of an audit file is a record [k, tag, val, ctag, attr]:          *)
(*   k = "xml"        <?xml version="1.0" encoding="UTF-8"?>               *)
(*       "itemlist"   <itemList generator="tag" ...>                       *)
(*       "issuelist"  <issueList ...>                                      *)
(*       "listclose"  </itemList>                                          *)
(*       "debugopen"  <Debug created=".." uid="..">                        *)
(*       "debugclose" </Debug>                                             *)
(*       "itemopen"   <tag created=".." uid="..">  (attr: which are there) *)
(*       "open"       <tag>                                                *)
(*       "openval"    <tag>val            (val not blank)                  *)
(*       "single"     <tag>val</ctag>                                      *)
(*       "selfclose"  <tag />                                              *)
(*       "close"      val</tag>           (val blank: the indentation)     *)
(*       "valclose"   val</tag>           (val not blank, without < or >)  *)
(*       "text"       val                 (without <; may be empty)        *)
(*       "junk"       val                 (with a < that opens no tag)     *)

L(k, tag, val, ctag, attr) == [k |-> k, tag |-> tag, val |-> val, ctag |-> ctag, attr |-> attr]

\* the raw text of a line
LineText(line) ==
  CASE line.k = "xml" -> <<"<?xml ", "version=\"1.0\"?>">>
    [] line.k = "itemlist" -> <<"<itemList", " generator=\"", line.tag, "\">">>
    [] line.k = "issuelist" -> <<"<issueList", ">">>
    [] line.k = "listclose" -> <<"</", "itemList", ">">>
    [] line.k = "debugopen" -> <<"<", "Debug", " created=", " uid=", ">">>
    [] line.k = "debugclose" -> <<"</", "Debug", ">">>
    [] line.k = "itemopen" -> <<"<", line.tag, " ">> \o
         (IF "created" \in line.attr THEN <<"created=\"", "2020-10-05T18:01:05Z", "\" ">> ELSE << >>) \o
         (IF "uid" \in line.attr THEN <<"uid=\"", "473bc9ba", "\"">> ELSE << >>) \o <<">">>
    [] line.k = "open" -> <<"<", line.tag, ">">>
    [] line.k = "openval" -> <<"<", line.tag, ">">> \o line.val
    [] line.k = "single" -> <<"<", line.tag, ">">> \o line.val \o <<"</", line.ctag, ">">>
    [] line.k = "selfclose" -> <<"<", line.tag, " />">>
    [] line.k \in {"close", "valclose"} -> line.val \o <<"</", line.tag, ">">>
    [] OTHER -> line.val

\* the element name a closing line closes
CloseName(line) ==
  CASE line.k = "listclose" -> "itemList"
    [] line.k = "debugclose" -> "Debug"
    [] OTHER -> line.tag

\* regAuditOpen ^[ \t]*<([^ >]+)[ >] : any line that starts with a tag
MatchAuditOpen(line) ==
  line.k \in {"xml", "itemlist", "issuelist", "listclose", "debugopen", "debugclose",
              "itemopen", "open", "openval", "single", "selfclose", "close"}

\* regAuditCloseORFieldSubClose ^[ \t]*</([^ >]+)>
MatchAuditCloseORFieldSubClose(line) == line.k \in {"close", "listclose", "debugclose"}

\* regFieldSLClose ^[ \t]*<([-_A-Za-z0-9]+) ?/>$
MatchFieldSLClose(line) == line.k = "selfclose"

\* regFieldSL ^[ \t]*<([-_A-Za-z0-9]+)>(.*)</[-_A-Za-z0-9]+>$
MatchFieldSL(line) == line.k = "single"

\* regFieldMLOpenORFieldSubOpen ^[ \t]*<([-_A-Za-z0-9]+)>(.*)$
MatchFieldMLOpenORFieldSubOpen(line) == line.k \in {"open", "openval", "single"}

\* regFieldMLClose ^([^<>]*)</([-_A-Za-z0-9]+)>$ : m[1] is line.val, m[2] the name
MatchFieldMLClose(line) == line.k \in {"close", "valclose", "listclose", "debugclose"}

\* the text before the closing tag, m[1] of regFieldMLClose
MLCloseValue(line) == IF line.k \in {"close", "valclose"} THEN line.val ELSE << >>

\* !strings.Contains(line, "<")
NoTagChar(line) == line.k = "text"

\* regexp <([^ >]+)[ >] on the third line: << name >> of the first tag, << >> if none
AuditTypeSubmatch(line) ==
  CASE line.k \in {"itemopen", "open", "openval", "single", "selfclose"} -> << line.tag >>
    [] line.k = "itemlist" -> <<"itemList">>
    [] line.k = "issuelist" -> <<"issueList">>
    [] line.k = "debugopen" -> <<"Debug">>
    [] line.k = "xml" -> <<"?xml">>
    [] line.k \in {"close", "valclose", "listclose", "debugclose"} -> <<"/", CloseName(line)>>
    [] OTHER -> << >>

(* ------------------------- row accumulation --------------------------- *)

\* timestamps parse_time rewrites, as whole values
TimeTable ==
  [t \in {"2020-10-05T18:01:05Z", "2019-12-19T11:11:45.299Z"} |->
     IF t = "2020-10-05T18:01:05Z" THEN "2020-10-05 18:01:05" ELSE "2019-12-19 11:11:45.299"]

parse_time(timevalue) ==
  IF Len(timevalue) = 1 /\ timevalue[1] \in DOMAIN TimeTable
  THEN << TimeTable[timevalue[1]] >>
  ELSE timevalue

\* strings.Replace of "\r\n", "\n" and "\r" by "|"
ReplaceNewLines(value) ==
  [k \in 1..Len(value) |-> IF value[k] \in {"\r\n", "\n", "\r"} THEN "|" ELSE value[k]]

\* the column id of a header in headers (a sequence; id = position - 1), -1 if absent
ColID(headers, header) ==
  IF \E k \in 1..Len(headers) : headers[k] = header
  THEN (CHOOSE k \in 1..Len(headers) : headers[k] = header) - 1
  ELSE -1

add_value_to_row_normal_last(header, value, headerPathParts, headers, row, options, existingGetsNewLine, include_value) ==
  LET hdr == IF Len(headerPathParts) > 0
             THEN Join(headerPathParts, ".") \o <<".">> \o header
             ELSE header
      headerExists == ColID(headers, hdr) # -1
      colID == IF headerExists THEN ColID(headers, hdr) ELSE Len(headers)
  IN [headers |-> IF headerExists THEN headers ELSE Append(headers, hdr),
      row |-> [c \in DOMAIN row \cup {colID} |-> IF c = colID THEN parse_time(value) ELSE row[c]]]

\* add_value_to_row_normal: the new [headers, row]; row maps column ids to values
add_value_to_row_normal(header, value, headerPathParts, headers, row, options, existingGetsNewLine, include_value) ==
  IF ~include_value THEN [headers |-> headers, row |-> row]
  ELSE
    LET hdr == IF Len(headerPathParts) > 0
               THEN Join(headerPathParts, ".") \o <<".">> \o header
               ELSE header
        v1 == parse_time(value)
        v2 == IF options.ReplaceNewLineFeeds THEN ReplaceNewLines(v1) ELSE v1
        headerExists == ColID(headers, hdr) # -1
        colID == IF headerExists THEN ColID(headers, hdr) ELSE Len(headers)
        headers1 == IF headerExists THEN headers ELSE Append(headers, hdr)
        valueExists == colID \in DOMAIN row
        v3 == IF valueExists /\ existingGetsNewLine
              THEN (IF options.ReplaceNewLineFeeds THEN <<"|">> ELSE <<"\r\n">>) \o v2
              ELSE v2
    IN [headers |-> headers1,
        row |-> IF valueExists
                THEN [row EXCEPT ![colID] = @ \o v3]
                ELSE [c \in DOMAIN row \cup {colID} |-> IF c = colID THEN v3 ELSE row[c]]]

\* the first index of row with this column id, 0 if there is none
RowIndex(row, colID) ==
  IF \E k \in 1..Len(row) : row[k].colid = colID
  THEN CHOOSE k \in 1..Len(row) : row[k].colid = colID /\ \A j \in 1..(k - 1) : row[j].colid # colID
  ELSE 0

add_value_to_row_eventbuffer_reuse(header, value, headers, row, options, existingValueGetsNewLine) ==
  LET colID == IF header \in DOMAIN headers THEN headers[header]
               ELSE Cardinality(DOMAIN headers) - 1
  IN [headers |-> [h \in DOMAIN headers \cup {header} |->
                     IF h = header THEN colID ELSE headers[h]],
      row |-> Append(row, [colid |-> colID, value |-> value])]

\* add_value_to_row_eventbuffer: the new [headers, row]; headers maps names to ids
add_value_to_row_eventbuffer(header, value, headers, row, options, existingValueGetsNewLine) ==
  LET v1 == parse_time(value)
      v2 == IF options.ReplaceNewLineFeeds THEN ReplaceNewLines(v1) ELSE v1
      headerExists == header \in DOMAIN headers
      colID == IF headerExists THEN headers[header] ELSE Cardinality(DOMAIN headers)
      headers1 == IF headerExists THEN headers
                  ELSE [h \in DOMAIN headers \cup {header} |->
                          IF h = header THEN colID ELSE headers[h]]
      index == RowIndex(row, colID)
      v3 == IF existingValueGetsNewLine
            THEN (IF options.ReplaceNewLineFeeds THEN <<"|">> ELSE <<"\r\n">>) \o v2
            ELSE v2
  IN [headers |-> headers1,
      row |-> IF index # 0
              THEN [row EXCEPT ![index].value = @ \o v3]
              ELSE Append(row, [colid |-> colID, value |-> v2])]

(* ------------------------ worker result messages ---------------------- *)
(* The message of a ThreadReturn_Parse, as tokens; the phrases that        *)
(* GoAuditParser_Start and ParseConfigUpdateXMLParse look for are tokens.  *)

MsgNotExist(path) ==
  <<"Warnbox", "ERROR - File '">> \o path \o <<"' ", "does not exist", ".">>

MsgCouldNotParse(xmlFileName, detail, text) ==
  <<"Warnbox", "ERROR - ", "Could not parse file", " '">> \o xmlFileName
    \o <<"'. ", detail>> \o text

MsgInternal(xmlFileName, text) ==
  <<"Warnbox", "INTERNAL ERROR - ", "Could not parse file", " '">> \o xmlFileName
    \o <<"'. ", "Unexpected state">> \o text

MsgIssues(xmlFileName) ==
  <<"Warnbox", "NOTICE - ", "Issues file", " '">> \o xmlFileName \o <<"' ignored.">>

MsgEmpty(xmlFileName) ==
  <<"Warnbox", "WARNING - File '">> \o xmlFileName \o <<"' ", "is empty", ".">>

MsgExists(xmlFileName) ==
  <<"Box", "NOTICE - Parsed audit for file '">> \o xmlFileName
    \o <<"' ", "already exists", ". Use '-f' flag to force reparse.">>

MsgOpenToSplit(path) ==
  <<"Warnbox", "ERROR - Could not open file '">> \o path \o <<"' to split. ", "err">>

MsgRename(temp, final) ==
  <<"Warnbox", "ERROR - ", "Could not rename", " temp file '">> \o Base(temp)
    \o <<"' to normal file '">> \o Base(final) \o <<"'. ", "err">>

MsgCreateSplit(temp, final) ==
  <<"Warnbox", "ERROR - Could not create temp split file '">> \o Base(temp)
    \o <<"' to normal file '">> \o Base(final) \o <<"'. ", "err">>

MsgSuccess(xmlFileName) ==
  <<"Box", "NOTICE - File '">> \o xmlFileName \o <<"' ", "parsed successfully", ".">>

MsgFileWasSplit == <<"File was split", ".">>

(* ------------------------- normal-style parser ------------------------ *)
(* The state of the line loop of GoAuditParser_Thread (AUDIT_NORMAL):      *)
(*   state, lineCount, headers, rows, row, hpp (headerPathParts),          *)
(*   mlh (multilineHeader), hasPath (csvFilePathHasAuditType),             *)
(*   temp (csvFileTemp was created), and out: "" while the loop runs,      *)
(*   "break" after the list close, "ret" after a send and return (msg),    *)
(*   "panic" after a runtime panic (slice bounds out of range).            *)
(* ctx holds what the loop reads: xmlFileName, auditType, options, and the *)
(* file system's answers csvExists (os.Stat) and createFails (os.Create).  *)

STATE_HEADER == 0
STATE_EXPECTING_AUDITITEMOPEN_OR_ITEMLISTCLOSE_OR_DEBUGOPEN == 1
STATE_EXPECTING_FIELDOPEN_OR_AUDITITEMCLOSE == 2
STATE_EXPECTING_AUDITITEMOPEN_OR_FIELDCLOSE == 3
STATE_EXPECTING_FIELDCLOSE == 4
STATE_FINISHED == 5
STATE_EXPECTING_DEBUGCLOSE == 6

EmptyRow == [c \in {} |-> << >>]

ParserInit ==
  [state |-> STATE_HEADER, lineCount |-> 0, headers |-> << >>, rows |-> << >>,
   row |-> EmptyRow, hpp |-> << >>, mlh |-> << >>, hasPath |-> FALSE, temp |-> FALSE,
   out |-> "", msg |-> << >>]

Ret(ps, msg) == [ps EXCEPT !.out = "ret", !.msg = msg]

Panic(ps) == [ps EXCEPT !.out = "panic"]

\* ps after add_value_to_row_normal(header, value, hpp, headers, row, ..)
AddValue(ps, header, value, hpp, existingGetsNewLine, ctx) ==
  LET r == add_value_to_row_normal(header, value, hpp, ps.headers, ps.row,
                                   ctx.options, existingGetsNewLine, TRUE)
  IN [ps EXCEPT !.headers = r.headers, !.row = r.row]

Pop(hpp) == SubSeq(hpp, 1, Len(hpp) - 1)

StepItemOpen_keep(ps0, line, ctx) ==
  LET ps == [ps0 EXCEPT !.rows = IF DOMAIN ps0.row # {} THEN Append(@, ps0.row) ELSE @,
                        !.hpp = << >>]
      n == ctx.xmlFileName
      reparse == ctx.options.ForceReparse \/ ctx.options.WipeOutput
  IN IF line.k = "listclose" THEN [ps EXCEPT !.state = STATE_FINISHED, !.out = "break"]
     ELSE IF line.k = "debugopen" THEN [ps EXCEPT !.state = STATE_EXPECTING_DEBUGCLOSE]
     ELSE IF ~MatchAuditOpen(line)
       THEN Ret(ps, MsgCouldNotParse(n, "Expected '^<([^ >]+)[ >]' or '</itemList>' on line",
                                     LineText(line)))
     ELSE IF ~ps.hasPath /\ ~reparse /\ ctx.csvExists
       THEN Ret([ps EXCEPT !.hasPath = TRUE], MsgExists(n))
     ELSE IF ~ps.hasPath /\ ctx.createFails
       THEN Ret([ps EXCEPT !.hasPath = TRUE],
                MsgCouldNotParse(n, "Could not create file '",
                                 CsvFilePathTemp(n, ctx.auditType, ctx.options) \o <<"'. ", "err">>))
     ELSE LET ps1 == [ps EXCEPT !.hasPath = TRUE, !.temp = TRUE]
              ps2 == IF line.k = "itemopen" /\ "created" \in line.attr
                     THEN AddValue(ps1, <<"FireEyeGeneratedTime">>, <<"2020-10-05T18:01:05Z">>,
                                   ps1.hpp, TRUE, ctx)
                     ELSE ps1
          IN [ps2 EXCEPT !.state = STATE_EXPECTING_FIELDOPEN_OR_AUDITITEMCLOSE]

\* state == STATE_EXPECTING_AUDITITEMOPEN_OR_ITEMLISTCLOSE_OR_DEBUGOPEN
StepItemOpen(ps0, line, ctx) ==
  LET ps == [ps0 EXCEPT !.rows = IF DOMAIN ps0.row # {} THEN Append(@, ps0.row) ELSE @,
                        !.row = EmptyRow, !.hpp = << >>]
      n == ctx.xmlFileName
      reparse == ctx.options.ForceReparse \/ ctx.options.WipeOutput
  IN IF line.k = "listclose" THEN [ps EXCEPT !.state = STATE_FINISHED, !.out = "break"]
     ELSE IF line.k = "debugopen" THEN [ps EXCEPT !.state = STATE_EXPECTING_DEBUGCLOSE]
     ELSE IF ~MatchAuditOpen(line)
       THEN Ret(ps, MsgCouldNotParse(n, "Expected '^<([^ >]+)[ >]' or '</itemList>' on line",
                                     LineText(line)))
     ELSE IF ~ps.hasPath /\ ~reparse /\ ctx.csvExists
       THEN Ret([ps EXCEPT !.hasPath = TRUE], MsgExists(n))
     ELSE IF ~ps.hasPath /\ ctx.createFails
       THEN Ret([ps EXCEPT !.hasPath = TRUE],
                MsgCouldNotParse(n, "Could not create file '",
                                 CsvFilePathTemp(n, ctx.auditType, ctx.options) \o <<"'. ", "err">>))
     ELSE LET ps1 == [ps EXCEPT !.hasPath = TRUE, !.temp = TRUE]
              ps2 == IF line.k = "itemopen" /\ "created" \in line.attr
                     THEN AddValue(ps1, <<"FireEyeGeneratedTime">>, <<"2020-10-05T18:01:05Z">>,
                                   ps1.hpp, TRUE, ctx)
                     ELSE ps1
          IN [ps2 EXCEPT !.state = STATE_EXPECTING_FIELDOPEN_OR_AUDITITEMCLOSE]

\* state == STATE_EXPECTING_FIELDOPEN_OR_AUDITITEMCLOSE, or
\* state == STATE_EXPECTING_AUDITITEMOPEN_OR_FIELDCLOSE once its own two cases are over
StepFieldOpen(ps, line, ctx) ==
  LET n == ctx.xmlFileName
      endTag == << CloseName(line) >>
      depth == Len(ps.hpp)
  IN IF MatchAuditCloseORFieldSubClose(line)
     THEN IF depth = 0 /\ endTag = ctx.auditType
            THEN [ps EXCEPT !.state = STATE_EXPECTING_AUDITITEMOPEN_OR_ITEMLISTCLOSE_OR_DEBUGOPEN]
          ELSE IF depth # 0 /\ endTag = ps.hpp[depth]
            THEN [ps EXCEPT !.hpp = Pop(@)]
          ELSE IF depth = 0
            THEN Ret(ps, MsgCouldNotParse(n, "Expected AuditItem Close Tag", LineText(line)))
          ELSE Ret(ps, MsgCouldNotParse(n, "Expected SubField Close Tag", LineText(line)))
     ELSE IF MatchFieldSLClose(line)
       THEN AddValue(ps, << line.tag >>, << >>, ps.hpp, TRUE, ctx)
     ELSE IF MatchFieldSL(line)
       THEN AddValue(ps, << line.tag >>, line.val, ps.hpp, TRUE, ctx)
     ELSE IF MatchFieldMLOpenORFieldSubOpen(line)
       THEN LET ps1 == [ps EXCEPT !.mlh = << line.tag >>]
            IN IF TrimSpace(line.val) # << >>
               THEN [AddValue(ps1, ps1.mlh, line.val, ps1.hpp, TRUE, ctx)
                       EXCEPT !.state = STATE_EXPECTING_FIELDCLOSE]
               ELSE [ps1 EXCEPT !.hpp = Append(@, ps1.mlh),
                                !.state = STATE_EXPECTING_AUDITITEMOPEN_OR_FIELDCLOSE]
     ELSE Ret(ps, MsgCouldNotParse(n, "Expected AuditItem Close Tag .. or MultiLine SubField Open",
                                   LineText(line)))

\* state == STATE_EXPECTING_AUDITITEMOPEN_OR_FIELDCLOSE
StepSubField(ps, line, ctx) ==
  LET n == ctx.xmlFileName
  IN IF MatchFieldMLClose(line) /\ TrimSpace(MLCloseValue(line)) # << >>
     THEN IF Len(ps.hpp) = 0 THEN Panic(ps)
          ELSE LET ps1 == [ps EXCEPT !.hpp = Pop(@)]
               IN IF << CloseName(line) >> # ps.mlh
                  THEN Ret(ps1, MsgCouldNotParse(n, "MultiLine Field Close .. did not match Open Header",
                                                 LineText(line)))
                  ELSE [AddValue(ps1, ps1.mlh, MLCloseValue(line), ps1.hpp, FALSE, ctx)
                          EXCEPT !.mlh = << >>,
                                 !.state = STATE_EXPECTING_FIELDOPEN_OR_AUDITITEMCLOSE]
     ELSE IF ~MatchFieldMLClose(line) /\ NoTagChar(line)
     THEN IF Len(ps.hpp) = 0 THEN Panic(ps)
          ELSE LET ps1 == [ps EXCEPT !.hpp = Pop(@)]
               IN [AddValue(ps1, ps1.mlh, LineText(line) \o <<"\n">>, ps1.hpp, FALSE, ctx)
                     EXCEPT !.state = STATE_EXPECTING_FIELDCLOSE]
     ELSE StepFieldOpen(ps, line, ctx)

\* state == STATE_EXPECTING_FIELDCLOSE
StepFieldClose(ps, line, ctx) ==
  IF MatchFieldMLClose(line)
  THEN IF << CloseName(line) >> # ps.mlh
       THEN Ret(ps, MsgCouldNotParse(ctx.xmlFileName,
                                     "MultiLine Field Close .. did not match Open Header",
                                     LineText(line)))
       ELSE [AddValue(ps, ps.mlh, MLCloseValue(line), ps.hpp, FALSE, ctx)
               EXCEPT !.mlh = << >>, !.state = STATE_EXPECTING_FIELDOPEN_OR_AUDITITEMCLOSE]
  ELSE AddValue(ps, ps.mlh, LineText(line) \o <<"\n">>, ps.hpp, FALSE, ctx)

StepDebugClose_field(ps, line) ==
  IF line.k = "debugclose"
  THEN [ps EXCEPT !.state = STATE_EXPECTING_AUDITITEMOPEN_OR_ITEMLISTCLOSE_OR_DEBUGOPEN]
  ELSE IF line.k = "single" THEN [ps EXCEPT !.headers = Append(@, << line.tag >>)]
  ELSE ps

\* state == STATE_EXPECTING_DEBUGCLOSE
StepDebugClose(ps, line) ==
  IF line.k = "debugclose"
  THEN [ps EXCEPT !.state = STATE_EXPECTING_AUDITITEMOPEN_OR_ITEMLISTCLOSE_OR_DEBUGOPEN]
  ELSE ps

\* one iteration of the line loop on the next line
NormalStep(ps0, line, ctx) ==
  LET ps == [ps0 EXCEPT !.lineCount = @ + 1]
      n == ctx.xmlFileName
  IN IF ps.state = STATE_HEADER /\ ps.lineCount = 1
     THEN IF line.k # "xml"
          THEN Ret(ps, MsgCouldNotParse(n, "Unexpected 1st Line: ", TrimSpace(LineText(line))))
          ELSE ps
     ELSE IF ps.state = STATE_HEADER /\ ps.lineCount = 2
     THEN IF line.k = "issuelist" THEN Ret(ps, MsgIssues(n))
          ELSE IF line.k # "itemlist"
            THEN Ret(ps, MsgCouldNotParse(n, "Unexpected 2nd Line: ", TrimSpace(LineText(line))))
          ELSE [ps EXCEPT !.state = STATE_EXPECTING_AUDITITEMOPEN_OR_ITEMLISTCLOSE_OR_DEBUGOPEN]
     ELSE IF ps.state = STATE_EXPECTING_AUDITITEMOPEN_OR_ITEMLISTCLOSE_OR_DEBUGOPEN
       THEN StepItemOpen(ps, line, ctx)
     ELSE IF ps.state = STATE_EXPECTING_FIELDOPEN_OR_AUDITITEMCLOSE
       THEN StepFieldOpen(ps, line, ctx)
     ELSE IF ps.state = STATE_EXPECTING_AUDITITEMOPEN_OR_FIELDCLOSE
       THEN StepSubField(ps, line, ctx)
     ELSE IF ps.state = STATE_EXPECTING_FIELDCLOSE
       THEN StepFieldClose(ps, line, ctx)
     ELSE IF ps.state = STATE_EXPECTING_DEBUGCLOSE
       THEN StepDebugClose(ps, line)
     ELSE Ret(ps, MsgInternal(n, LineText(line)))

RECURSIVE RunLines(_, _, _)
\* the line loop: until a break, a return, a panic or the end of the lines
RunLines(ps, lines, ctx) ==
  IF ps.out # "" \/ Len(lines) = 0 THEN ps
  ELSE RunLines(NormalStep(ps, Head(lines), ctx), Tail(lines), ctx)

(* --------------------------- GoAuditParser_Thread --------------------- *)
(* A worker's run as a function of what it reads:                          *)
(*   fileconfig  the Parse_Config_XMLFile it was started with              *)
(*   present     whether os.Stat finds the file in the input directory or  *)
(*               in xmlsplit                                               *)
(*   lines       the file's lines                                          *)
(*   outfiles    the paths that exist in the output directory              *)
(*   nd          what the file system does: "none" (every call succeeds),  *)
(*               "open", "create", "rename" (that call fails); for the     *)
(*               event dialects, whose line loops are not unfolded here,   *)
(*               also "empty" and "struct" (what the loop finds)           *)
(* The result is [out, msg, temp, final]: out = "ret" with the message     *)
(* sent on c, or "panic" with nothing sent; temp and final are the paths   *)
(* the worker leaves behind (<< >> for none).                              *)

ThreadChoices == {"none", "open", "create", "rename", "empty", "struct"}

AUDIT_NORMAL == 1
AUDIT_EVENTBUFFER == 2
AUDIT_STATEAGENTINSPECTOR == 3

\* files at or above this size are read with a scanner, smaller ones in one piece
ScannerThreshold == 100000000

Sent(msg, temp, final) == [out |-> "ret", msg |-> msg, temp |-> temp, final |-> final]

Panicked == [out |-> "panic", msg |-> << >>, temp |-> << >>, final |-> << >>]

\* auditXMLStyle as the probe of the first lines sets it (0: not set)
AuditXMLStyle(lines) ==
  IF Len(lines) < 2 \/ lines[2].k # "itemlist" THEN 0
  ELSE IF lines[2].tag = "stateagentinspector" THEN AUDIT_STATEAGENTINSPECTOR
  ELSE IF lines[2].tag = "eventbuffer" THEN AUDIT_EVENTBUFFER
  ELSE AUDIT_NORMAL

\* GoAuditParser_Thread (AUDIT_NORMAL) once the line loop has ended in ps
ThreadNormalEnd(fileconfig, auditType, options, nd, ps) ==
  LET n == fileconfig.InputFileName
      final == CsvFilePath(n, auditType, options)
      temp == CsvFilePathTemp(n, auditType, options)
      useScanner == fileconfig.InputFileSize >= ScannerThreshold
      left == IF ps.temp THEN temp ELSE << >>
  IN IF nd = "open"
     THEN IF useScanner
          THEN Sent(<<"Warnbox", "ERROR - File ">> \o options.InputPath \o <<"/">> \o n
                      \o <<"' ", "does not exist", ".">>, << >>, << >>)
          ELSE Sent(MsgOpenToSplit(options.InputPath \o <<"/">> \o n), << >>, << >>)
     ELSE IF ps.out = "panic" THEN Panicked
     ELSE IF ps.out = "ret" THEN Sent(ps.msg, left, << >>)
     ELSE IF Len(ps.rows) = 0 THEN Sent(MsgEmpty(n), << >>, << >>)
     ELSE IF nd = "rename" THEN Sent(MsgRename(temp, final), left, << >>)
     ELSE Sent(MsgSuccess(n), << >>, final)

\* the lines the loop runs over: strings.Split(content, "\n") ends with an
\* empty line, the scanner's lines do not
LoopLines(fileconfig, lines) ==
  IF fileconfig.InputFileSize >= ScannerThreshold THEN lines
  ELSE Append(lines, L("text", "", << >>, "", {}))

\* what the line loop reads besides the lines
LoopCtx(fileconfig, auditType, options, outfiles, nd) ==
  [xmlFileName |-> fileconfig.InputFileName, auditType |-> auditType, options |-> options,
   csvExists |-> CsvFilePath(fileconfig.InputFileName, auditType, options) \in outfiles,
   createFails |-> nd = "create"]

\* the part of GoAuditParser_Thread after the probe, for AUDIT_NORMAL
ThreadNormal(fileconfig, lines, auditType, options, outfiles, nd) ==
  ThreadNormalEnd(fileconfig, auditType, options, nd,
                  RunLines(ParserInit, LoopLines(fileconfig, lines),
                           LoopCtx(fileconfig, auditType, options, outfiles, nd)))

\* the part of GoAuditParser_Thread after the probe, for the event dialects
ThreadEvent(fileconfig, options, nd) ==
  LET n == fileconfig.InputFileName
      p == FileNameParts(n, options)
      final == options.OutputPath \o <<"/">> \o p.hostname \o <<"-">> \o p.agentid \o <<"-">>
                 \o p.payload \o <<"-">> \o <<"EventItem_", "eventType", ".csv">>
      temp == final \o <<".incomplete">>
  IN CASE nd = "open" -> Sent(MsgCouldNotParse(n, "err", << >>), << >>, << >>)
       [] nd = "struct" -> Sent(MsgCouldNotParse(n, "Expected", << >>), << >>, << >>)
       [] nd = "empty" -> Sent(MsgEmpty(n), << >>, << >>)
       [] nd = "create" -> Sent(MsgCouldNotParse(n, "Could not create file '", temp), << >>, << >>)
       [] nd = "rename" -> Sent(MsgRename(<< >>, options.OutputPath), temp, << >>)
       [] OTHER -> Sent(MsgSuccess(n), << >>, final)

\* GoAuditParser_Thread(fileconfig, es1, options, threadNum, c)
GoAuditParser_Thread(fileconfig, present, lines, options, outfiles, nd) ==
  LET n == fileconfig.InputFileName
      style == AuditXMLStyle(lines)
  IN IF ~present
       THEN Sent(MsgNotExist(options.InputPath \o <<"/">> \o n), << >>, << >>)
     ELSE IF Len(lines) >= 1 /\ lines[1].k # "xml"
       THEN Sent(MsgCouldNotParse(n, "Unexpected 1st Line: ", TrimSpace(LineText(lines[1]))),
                 << >>, << >>)
     ELSE IF Len(lines) >= 2 /\ lines[2].k = "issuelist"
       THEN Sent(MsgIssues(n), << >>, << >>)
     ELSE IF Len(lines) >= 2 /\ lines[2].k # "itemlist"
       THEN Sent(MsgCouldNotParse(n, "Unexpected 2nd Line: ", TrimSpace(LineText(lines[2]))),
                 << >>, << >>)
     ELSE IF style = 0
       THEN Sent(MsgCouldNotParse(n, "Unexpected XML schema.", << >>), << >>, << >>)
     ELSE IF style = AUDIT_NORMAL
       THEN IF Len(lines) < 3 THEN Sent(MsgEmpty(n), << >>, << >>)
            ELSE IF AuditTypeSubmatch(lines[3]) = << >>
              THEN Sent(MsgCouldNotParse(n, "Could not identify audit type from line: '",
                                         TrimSpace(LineText(lines[3]))), << >>, << >>)
            ELSE ThreadNormal(fileconfig, lines, AuditTypeSubmatch(lines[3]), options,
                              outfiles, nd)
     ELSE ThreadEvent(fileconfig, options, nd)

(* ------------------------------ the files ----------------------------- *)
(* A file on disk is a record [name, size, content]; content names its     *)
(* lines.  An os.FileInfo is the same record (only name and size are read  *)
(* through it).                                                            *)

XmlLine == L("xml", "", << >>, "", {})
ItemList == L("itemlist", "", << >>, "", {})

Content(id) ==
  CASE id = "good" ->
         << XmlLine, ItemList, L("itemopen", "X", << >>, "", {"created", "uid"}),
            L("single", "F", <<"v">>, "F", {}), L("close", "X", <<" ">>, "", {}),
            L("listclose", "", << >>, "", {}) >>
    [] id = "issues" -> << XmlLine, L("issuelist", "", << >>, "", {}) >>
    [] id = "empty" -> << XmlLine, ItemList, L("listclose", "", << >>, "", {}) >>
    [] id = "bad" ->
         << XmlLine, ItemList, L("itemopen", "X", << >>, "", {"created"}),
            L("close", "Y", <<" ">>, "", {}) >>
    [] id = "subtext" ->
         << XmlLine, ItemList, L("itemopen", "X", << >>, "", {"created"}),
            L("open", "A", << >>, "", {}), L("close", "A", <<" ">>, "", {}),
            L("text", "", <<"t">>, "", {}), L("close", "X", <<" ">>, "", {}),
            L("listclose", "", << >>, "", {}) >>
    [] id = "json" -> << L("junk", "", <<"{">>, "", {}) >>
    [] OTHER -> << >>

File(name, size, content) == [name |-> name, size |-> size, content |-> content]

\* the files a run may find in its input directory, in the order of their names
FileUniverse ==
  << File(<<"h", "-", "a", "-", "p1", "-", "x", ".xml">>, 400000000, "good"),
     File(<<"h", "-", "a", "-", "p2", "-", "issues", ".xml">>, 60000000, "issues"),
     File(<<"h", "-", "a", "-", "p3", "-", "x", ".xml">>, 300000000, "good"),
     File(<<"h", "-", "a", "-", "p5", "-", "x", ".xml">>, 60000000, "subtext") >>

\* the files of the runs that are interrupted and resumed
ResumeUniverse ==
  << File(<<"h", "-", "a", "-", "p1", "-", "x", ".xml">>, 400000000, "good"),
     File(<<"h", "-", "a", "-", "p2", "-", "issues", ".xml">>, 60000000, "issues"),
     File(<<"h", "-", "a", "-", "p6", "-", "x", ".xml">>, 60000000, "empty"),
     File(<<"h", "-", "a", "-", "p7", "-", "x", ".json">>, 60000000, "good") >>

\* the subsequences of s with between 1 and n elements
SubSeqs(s, n) ==
  { [k \in 1..Cardinality(idx) |->
       s[CHOOSE j \in idx : Cardinality({m \in idx : m < j}) = k - 1]] :
    idx \in { x \in SUBSET (1..Len(s)) : Cardinality(x) \in 1..n } }

(* ------------------------------ the state ----------------------------- *)

VARIABLES
  args,            \* the Options of the runs, how many runs there are, and which have -f
  faults,          \* how many more calls of the file system may fail
  options,         \* the Options of the run: Threads, Verbose, ForceReparse, ...
  indir,           \* the files of the input directory, in the order of their names
  xmlsplit,        \* the files of <input>/xmlsplit
  outfiles,        \* the paths that exist in the output directory
  cachefile,       \* _GAPParseCache.json: [exists, xml]
  run,             \* the number of runs of GoAuditParser_Start started so far
  pc,              \* where the coordinator (GoAuditParser_Start) stands
  files,           \* files, once the run has listed and filtered them
  config,          \* config: the cache in memory (XMLFiles of the output directory)
  i,               \* the loop variable i of the launch loop or of the drain loop
  done,            \* the ThreadReturn_Parse just received from c
  wk,              \* the workers: threadNum -> [st, fileconfig, res]
  threadbuffer,    \* the keys of the map threadbuffer
  threadMessages,  \* threadMessages
  filesize_total,  \* filesize_total
  counts,          \* c_Success, c_Cached, c_Failed, c_Empty, c_Issues
  tqdm,            \* receives the TQDM goroutine still waits for (-1: not started)
  dbg,             \* the Debug goroutine: [pc, stats]
  pending,         \* bytes of the results recorded in config since the last save
  lastsave         \* ParseConfigSave since the last result: "none", "ok" or "failed"

vars == << args, faults, options, indir, xmlsplit, outfiles, cachefile, run, pc, files, config, i, done,
           wk, threadbuffer, threadMessages, filesize_total, counts, tqdm, dbg, pending,
                  lastsave >>

disk == << indir, xmlsplit, outfiles, cachefile >>

MaxFaults == 1

MaxRuns == 2

\* filesize_max
filesize_max == 500000000

\* the default of -xsb
XMLSplitByteSize == 300000000

CacheName == <<"_GAPParseCache", ".json">>

\* the size of the cache file grows with its entries
CacheFileInfo == File(CacheName, 50 + 100 * Len(cachefile.xml), "json")

\* ioutil.ReadDir(options.InputPath), directories removed
ListDir == (IF cachefile.exists THEN << CacheFileInfo >> ELSE << >>) \o indir

NoCounts == [Success |-> 0, Cached |-> 0, Failed |-> 0, Empty |-> 0, Issues |-> 0]

NoReturn == [threadnum |-> -1, xmlfile |-> << >>, xmlsize |-> 0, message |-> << >>]

\* Auto extract: archives (none here) and the cache file leave the list
AutoExtract(fs) ==
  LET keep(f) == f.name # CacheName
  IN SelectSeq(fs, keep)

FilterVerdict_parsedonly(status) ==
  IF status = <<"parsed">> THEN "Cached" ELSE "keep"

\* the counter a cached status adds to when its file leaves the list
FilterVerdict(status) ==
  IF status = <<"parsed">> THEN "Cached"
  ELSE IF status = <<"split">> THEN "Cached"
  ELSE IF status = <<"ignored/issues">> THEN "Issues"
  ELSE IF status = <<"ignored/empty">> THEN "Empty"
  ELSE "keep"

RECURSIVE FilterFiles(_, _, _, _)
\* "Remove non xml files and previously parsed files", from files[k] on
FilterFiles(fs, k, cfg, cnt) ==
  IF k > Len(fs) THEN [files |-> fs, config |-> cfg, counts |-> cnt]
  ELSE IF HasSuffix(fs[k].name, ".json") THEN FilterFiles(RemoveAt(fs, k), k, cfg, cnt)
  ELSE LET cfg1 == GetXMLParseConfig_Config(fs[k], cfg)
           verdict == FilterVerdict(GetXMLParseConfig_File(fs[k], cfg).Status)
       IN IF verdict = "keep" THEN FilterFiles(fs, k + 1, cfg1, cnt)
          ELSE FilterFiles(RemoveAt(fs, k), k, cfg1, [cnt EXCEPT ![verdict] = @ + 1])

\* the files Auto split hands to the splitter
IsSplitFile(f, opts) ==
  /\ ~Contains(f.name, "_spxml")
  /\ ~Contains(f.name, "stateagentinspector")
  /\ ~Contains(f.name, "eventbuffer")
  /\ f.size >= opts.XMLSplitByteSize

\* how many pieces the splitter writes: a piece ends once more than
\* splitSize - 3000 bytes are in it
NPieces(size, splitSize) == (size + (splitSize - 3000) - 1) \div (splitSize - 3000)

\* the k-th piece of file f; a piece holds whole items of f under f's header
SplitPiece(f, k, splitSize) ==
  LET parts == Split(f.name, "-")
      n == Len(parts)
      urn == Contains(f.name, ".urn_uuid_")
      hostname == IF urn THEN <<"HOSTNAMEPLACEHOLDER">> ELSE Join(SubSeq(parts, 1, n - 3), "-")
      agentid == IF urn THEN <<"AGENTIDPLACEHOLDER0000">> ELSE parts[n - 2]
      payload == IF urn THEN TrimSuffix(ReplaceAll(f.name, "-", "_"), ".xml") ELSE parts[n - 1]
      oldaudit == IF urn THEN <<"UNCONFIRMED", ".xml">> ELSE parts[n]
      last == k = NPieces(f.size, splitSize)
  IN File(hostname \o <<"-">> \o agentid \o <<"-">> \o payload \o <<"_spxml", ToString(k)>>
            \o <<"-">> \o oldaudit,
          IF last THEN f.size - (k - 1) * (splitSize - 3000) ELSE splitSize - 3000,
          f.content)

\* a directory after file f is written into it
WriteFile(dir, f) == { g \in dir : g.name # f.name } \cup { f }

RECURSIVE SplitterLoop(_, _, _)
\* GoAuditXMLSplitter_Start over options.SubTaskFiles: the pieces it returns,
\* the xmlsplit directory afterwards, the ticks TQDM received from c_tqdm, and
\* whether it blocks on c_tqdm, which nobody receives from when Verbose > 0
SplitterLoop(fs, opts, acc) ==
  IF Len(fs) = 0 \/ acc.blocked THEN acc
  ELSE LET f == fs[1]
           base == TrimSuffix(f.name, ".xml")
           splitSize == opts.XMLSplitByteSize
           pieces == [k \in 1..NPieces(f.size, splitSize) |-> SplitPiece(f, k, splitSize)]
           written == { g \in acc.xmlsplit : g.name \notin SeqToSet([k \in 1..Len(pieces) |-> pieces[k].name]) }
                        \cup SeqToSet(pieces)
           sent == IF opts.Verbose = 0 THEN acc.ticks + 1 ELSE acc.ticks
       IN IF HasSuffix(base, "issues")
          THEN SplitterLoop(Tail(fs), opts, [acc EXCEPT !.ticks = sent])
          ELSE IF f.size > splitSize
            THEN IF ~Contains(f.name, ".urn_uuid_") /\ Len(Split(f.name, "-")) < 4
                 THEN SplitterLoop(Tail(fs), opts,
                        [acc EXCEPT !.blocked = opts.Verbose > 0, !.ticks = sent])
                 ELSE SplitterLoop(Tail(fs), opts,
                        [filesSplit |-> acc.filesSplit \o pieces, xmlsplit |-> written,
                         blocked |-> opts.Verbose > 0, ticks |-> sent])
          ELSE SplitterLoop(Tail(fs), opts,
                 [acc EXCEPT !.xmlsplit = WriteFile(acc.xmlsplit, f),
                             !.blocked = opts.Verbose > 0, !.ticks = sent])

GoAuditXMLSplitter_Start(fs, opts, dir) ==
  SplitterLoop(fs, opts, [filesSplit |-> << >>, xmlsplit |-> dir, blocked |-> FALSE,
                          ticks |-> 0])

RECURSIVE GetXMLParseConfigAll(_, _)
\* InputConfig_GetXMLParseConfig for each file of fs in turn
GetXMLParseConfigAll(fs, cfg) ==
  IF Len(fs) = 0 THEN cfg
  ELSE GetXMLParseConfigAll(Tail(fs), GetXMLParseConfig_Config(fs[1], cfg))

RECURSIVE MarkSplit(_, _)
\* every split file gets the status of "File was split."
MarkSplit(fs, cfg) ==
  IF Len(fs) = 0 THEN cfg
  ELSE MarkSplit(Tail(fs), ParseConfigUpdateXMLParse(fs[1], MsgFileWasSplit, cfg))

\* the result of Auto split: files, config, xmlsplit, and whether it blocks
AutoSplitEnd(fs, cfg, dir, splitfiles, rest, sp, subTaskFiles) ==
  IF Len(splitfiles) = 0
  THEN [files |-> fs, config |-> cfg, xmlsplit |-> dir, blocked |-> FALSE]
  ELSE [files |-> rest \o subTaskFiles,
        config |-> MarkSplit(splitfiles, GetXMLParseConfigAll(subTaskFiles, cfg)),
        xmlsplit |-> sp.xmlsplit,
        blocked |-> sp.blocked]

\* the files of fs that Auto split hands to the splitter
SplitFiles(fs, opts) ==
  LET isSplit(f) == IsSplitFile(f, opts)
  IN SelectSeq(fs, isSplit)

\* the files of fs that stay as they are
RestFiles(fs, opts) ==
  LET notSplit(f) == ~IsSplitFile(f, opts)
  IN SelectSeq(fs, notSplit)

\* the pieces that are appended to the files: those whose name is not among rest
SubTaskFiles(filesSplit, rest) ==
  LET isNew(f) == \A k \in 1..Len(rest) : rest[k].name # f.name
  IN SelectSeq(filesSplit, isNew)

\* Auto split once the splitter has returned sp
AutoSplitDone(fs, cfg, dir, splitfiles, rest, sp) ==
  AutoSplitEnd(fs, cfg, dir, splitfiles, rest, sp, SubTaskFiles(sp.filesSplit, rest))

\* Auto split once the files are sorted into splitfiles and rest
AutoSplitSorted(fs, cfg, opts, dir, splitfiles, rest) ==
  AutoSplitDone(fs, cfg, dir, splitfiles, rest, GoAuditXMLSplitter_Start(splitfiles, opts, dir))

\* "Auto split": files, config and xmlsplit afterwards
AutoSplit(fs, cfg, opts, dir) ==
  AutoSplitSorted(fs, cfg, opts, dir, SplitFiles(fs, opts), RestFiles(fs, opts))

\* options.Threads as the run clamps it
ClampThreads(threads, n) ==
  LET t1 == IF threads < 1 THEN 1 ELSE threads
  IN IF n < t1 THEN n ELSE t1

(* ---------------------------- a run begins ---------------------------- *)

Options(threads, verbose, force, autosplit) ==
  [Threads |-> threads, Verbose |-> verbose, ForceReparse |-> force, WipeOutput |-> FALSE,
   ReplaceNewLineFeeds |-> FALSE, ParseAltHostname |-> << >>, ParseAltAgentID |-> << >>,
   ParseCSVFormat |-> 1, InputPath |-> <<"in">>, OutputPath |-> <<"out">>,
   AutoSplitFiles |-> autosplit, AutoExtract |-> TRUE, XMLSplitByteSize |-> XMLSplitByteSize]

\* the levels of -v: 0 shows a progress bar, 1 the Debug lines, 3 forces one thread
VerboseLevels == {0, 1, 3}

\* what a process that is not running holds
Stopped ==
  /\ files = << >>
  /\ config = << >>
  /\ i = 0
  /\ done = NoReturn
  /\ wk = << >>
  /\ threadbuffer = {}
  /\ threadMessages = << >>
  /\ filesize_total = 0
  /\ counts = NoCounts
  /\ tqdm = -1
  /\ dbg = [pc |-> "off", stats |-> "nil"]
  /\ pending = 0
  /\ lastsave = "none"

Init ==
  /\ args \in { [options |-> Options(t, v, FALSE, FALSE), Runs |-> 1, Force |-> << FALSE >>] :
                t \in 0..MaxThreads, v \in VerboseLevels }
  /\ args.options.Verbose > 2 => args.options.Threads = 1
  /\ faults = MaxFaults
  /\ options = args.options
  /\ indir \in SubSeqs(FileUniverse, MaxFiles)
  /\ xmlsplit = {}
  /\ outfiles = {}
  /\ cachefile = [exists |-> FALSE, xml |-> << >>]
  /\ run = 0
  /\ pc = "idle"
  /\ Stopped

\* the process is gone: it returned, it crashed, or it was killed
Ended == {"idle", "done", "panicked", "fatal", "blocked", "killed"}

\* the Options of the run that starts
RunOptions == [args.options EXCEPT !.ForceReparse = args.Force[run + 1]]

\* the listing after "Auto extract"
ListFiles(opts) == IF opts.AutoExtract THEN AutoExtract(ListDir) ELSE ListDir

\* the listing after the filter, which -f and -wo switch off
FilterListing(opts, fs1, cfg0) ==
  IF opts.ForceReparse \/ opts.WipeOutput
  THEN [files |-> fs1, config |-> cfg0, counts |-> NoCounts]
  ELSE FilterFiles(fs1, 1, cfg0, NoCounts)

\* the filtered listing after "Auto split", which -xs switches on
SplitListing(opts, flt, dir) ==
  IF opts.AutoSplitFiles
  THEN AutoSplit(flt.files, flt.config, opts, dir)
  ELSE [files |-> flt.files, config |-> flt.config, xmlsplit |-> dir, blocked |-> FALSE]

\* GoAuditParser_Start from the end of "Auto split" to the first worker;
\* cfg0 is the cache as read, fs1 the listing, flt and spl what the filter
\* and the split made of it
StartSplit(saveok, opts, cfg0, fs1, flt, spl) ==
  LET saves == opts.AutoSplitFiles /\ Len(fs1) # 0 /\ ~spl.blocked
      saved == saves /\ saveok
      n == Len(spl.files)
  IN /\ run' = run + 1
     /\ saves \/ saveok
     /\ faults' = IF saveok THEN faults ELSE faults - 1
     /\ indir' = indir
     /\ outfiles' = outfiles
     /\ xmlsplit' = IF Len(fs1) = 0 THEN xmlsplit ELSE spl.xmlsplit
     /\ threadbuffer' = {}
     /\ threadMessages' = << >>
     /\ filesize_total' = 0
     /\ done' = NoReturn
     /\ i' = 0
     /\ pending' = 0
     /\ lastsave' = IF ~saves THEN "none" ELSE IF saveok THEN "ok" ELSE "failed"
     /\ IF Len(fs1) = 0
        THEN \* "All identified file(s) already parsed."
             /\ pc' = "done"
             /\ cachefile' = [exists |-> TRUE, xml |-> cfg0]
             /\ files' = fs1 /\ config' = cfg0 /\ counts' = NoCounts
             /\ options' = opts /\ wk' = << >> /\ tqdm' = -1
             /\ dbg' = [pc |-> "off", stats |-> "nil"]
        ELSE /\ cachefile' = [exists |-> TRUE, xml |-> IF saved THEN spl.config ELSE cfg0]
             /\ files' = spl.files
             /\ config' = spl.config
             /\ counts' = flt.counts
             /\ wk' = [w \in 0..(n - 1) |->
                         [st |-> "idle", fileconfig |-> << >>, res |-> << >>]]
             /\ IF spl.blocked
                THEN /\ pc' = "blocked" /\ options' = opts /\ tqdm' = -1
                     /\ dbg' = [pc |-> "off", stats |-> "nil"]
                ELSE IF n = 0
                THEN /\ pc' = "done" /\ options' = opts /\ tqdm' = -1
                     /\ dbg' = [pc |-> "off", stats |-> "nil"]
                ELSE /\ pc' = "launch"
                     /\ options' = [opts EXCEPT !.Threads = ClampThreads(opts.Threads, n)]
                     /\ tqdm' = IF opts.Verbose = 0 THEN n ELSE -1
                     /\ dbg' = IF opts.Verbose = 0 THEN [pc |-> "off", stats |-> "nil"]
                               ELSE [pc |-> "select", stats |-> "nil"]

\* GoAuditParser_Start from the end of the filter on
StartFiltered(saveok, opts, cfg0, fs1, flt) ==
  StartSplit(saveok, opts, cfg0, fs1, flt, SplitListing(opts, flt, xmlsplit))

\* GoAuditParser_Start from the end of the listing on; the cache file is
\* created when missing, then read
StartListed(saveok, opts, fs1) ==
  StartFiltered(saveok, opts, cachefile.xml, fs1, FilterListing(opts, fs1, cachefile.xml))

\* GoAuditParser_Start up to the first worker: list the input, load the
\* cache, filter, split, and start the progress goroutine
StartRun(saveok) ==
  /\ pc \in Ended
  /\ run < args.Runs
  /\ saveok \/ faults > 0
  /\ StartListed(saveok, RunOptions, ListFiles(RunOptions))
  /\ UNCHANGED args

(* --------------------------- the coordinator -------------------------- *)
(* pc: "launch"  about to start the worker of files[i]                     *)
(*     "ldbg"    sending threadbuffer on c_debug after a launch            *)
(*     "recv"    receiving from c in the launch loop                       *)
(*     "prog"    sending on c_tqdm or c_debug in the launch loop           *)
(*     "drecv", "dprog"  the same two in the loop "Wait for last few       *)
(*               threads"                                                  *)
(* Indexes are Go's: files[i] of the code is files[i + 1] here.            *)

\* the Debug goroutine ranges over the map the coordinator gave it
Racing == dbg.pc = "reading" /\ dbg.stats = "ref"

LoopPc_nowait(j) == IF j < Len(files) THEN "launch" ELSE "drecv"

\* where the launch loop goes when its variable becomes j
LoopPc(j) ==
  IF j < Len(files) THEN (IF j >= options.Threads THEN "recv" ELSE "launch") ELSE "drecv"

LoopI(j) == IF j < Len(files) THEN j ELSE 0

\* go GoAuditParser_Thread(fileconfig, es1, options, i, c); threadbuffer[i] = ...
\* crash: the runtime notices the write during the range of Debug
CoordLaunch(crash) ==
  /\ pc = "launch"
  /\ crash => Racing
  /\ config' = GetXMLParseConfig_Config(files[i + 1], config)
  /\ wk' = [wk EXCEPT ![i] = [st |-> "running",
                              fileconfig |-> GetXMLParseConfig_File(files[i + 1], config),
                              res |-> << >>]]
  /\ threadbuffer' = threadbuffer \cup {i}
  /\ IF crash THEN pc' = "fatal" /\ i' = i
     ELSE IF options.Verbose > 0 THEN pc' = "ldbg" /\ i' = i
     ELSE pc' = LoopPc(i + 1) /\ i' = LoopI(i + 1)
  /\ UNCHANGED << args, faults, options, disk, run, files, done, threadMessages,
                  filesize_total, counts, tqdm, dbg, pending,
                  lastsave >>

\* c_debug <- threadbuffer after a launch; Debug receives it in its select
CoordDebugSend ==
  /\ pc = "ldbg"
  /\ dbg.pc = "select"
  /\ dbg' = [dbg EXCEPT !.stats = "ref"]
  /\ pc' = LoopPc(i + 1)
  /\ i' = LoopI(i + 1)
  /\ UNCHANGED << args, faults, options, disk, run, files, config, done, wk, threadbuffer,
                  threadMessages, filesize_total, counts, tqdm, pending,
                  lastsave >>

\* done := <-c; delete(threadbuffer, done.threadnum)
CoordRecv(w, crash) ==
  /\ pc \in {"recv", "drecv"}
  /\ w \in DOMAIN wk
  /\ wk[w].st = "sending"
  /\ crash => Racing
  /\ done' = [threadnum |-> w, xmlfile |-> wk[w].fileconfig.InputFileName,
              xmlsize |-> wk[w].fileconfig.InputFileSize, message |-> wk[w].res.msg]
  /\ wk' = [wk EXCEPT ![w].st = "done"]
  /\ threadbuffer' = threadbuffer \ {w}
  /\ pc' = IF crash THEN "fatal" ELSE IF pc = "recv" THEN "prog" ELSE "dprog"
  /\ UNCHANGED << args, faults, options, disk, run, files, config, i, threadMessages,
                  filesize_total, counts, tqdm, dbg, pending,
                  lastsave >>

RECURSIVE CountMessages(_, _)
\* the loop over threadMessages that fills c_Success, c_Failed, ...
CountMessages(msgs, cnt) ==
  IF Len(msgs) = 0 THEN cnt
  ELSE LET msg == msgs[1]
           cnt1 ==
             IF Contains(msg, "parsed successfully") THEN [cnt EXCEPT !.Success = @ + 1]
             ELSE IF Contains(msg, "Could not rename") THEN [cnt EXCEPT !.Failed = @ + 1]
             ELSE IF Contains(msg, "Could not parse file") THEN [cnt EXCEPT !.Failed = @ + 1]
             ELSE IF Contains(msg, "already exists") THEN [cnt EXCEPT !.Cached = @ + 1]
             ELSE IF Contains(msg, "Issues file") THEN [cnt EXCEPT !.Issues = @ + 1]
             ELSE IF Contains(msg, "is empty") THEN [cnt EXCEPT !.Empty = @ + 1]
             ELSE IF Contains(msg, "does not exist") THEN [cnt EXCEPT !.Failed = @ + 1]
             ELSE cnt
       IN CountMessages(Tail(msgs), cnt1)

DoneFile_byloop == files[i + 1]

\* files[done.threadnum]
DoneFile == files[done.threadnum + 1]

SavesNow_window(total) == total > filesize_max

\* whether the result just recorded triggers ParseConfigSave
SavesNow(total) ==
  IF pc = "prog" THEN total > filesize_max
  ELSE total > filesize_max \/ i = options.Threads - 1

\* the rest of the handling of a result: the progress send, the message, the
\* cache entry, the save, and in the last round the statistics
CoordProgress(saveok) ==
  /\ pc \in {"prog", "dprog"}
  /\ IF options.Verbose = 0
     THEN tqdm > 0 /\ tqdm' = tqdm - 1 /\ dbg' = dbg
     ELSE dbg.pc = "select" /\ dbg' = [dbg EXCEPT !.stats = "ref"] /\ tqdm' = tqdm
  /\ threadMessages' = Append(threadMessages, done.message)
  /\ config' = ParseConfigUpdateXMLParse(DoneFile, done.message, config)
  /\ LET total == IF pc = "prog" THEN filesize_total + done.xmlsize ELSE filesize_total
         save == SavesNow(total)
     IN /\ saveok \/ (save /\ faults > 0)
        /\ faults' = IF saveok THEN faults ELSE faults - 1
        /\ filesize_total' = IF save THEN 0 ELSE total
        /\ cachefile' = IF save /\ saveok THEN [exists |-> TRUE, xml |-> config'] ELSE cachefile
        /\ pending' = IF save /\ saveok THEN 0 ELSE pending + done.xmlsize
        /\ lastsave' = IF ~save THEN "none" ELSE IF saveok THEN "ok" ELSE "failed"
  /\ IF pc = "prog" THEN pc' = "launch" /\ i' = i /\ counts' = counts
     ELSE IF i + 1 < options.Threads THEN pc' = "drecv" /\ i' = i + 1 /\ counts' = counts
     ELSE pc' = "done" /\ i' = i + 1 /\ counts' = CountMessages(threadMessages', counts)
  /\ UNCHANGED << args, options, indir, xmlsplit, outfiles, run, files, done, wk,
                  threadbuffer >>

(* ------------------------------ a worker ------------------------------ *)

\* os.Stat of the file in the input directory, then in xmlsplit
FilePresent(name) ==
  \/ \E k \in 1..Len(ListDir) : ListDir[k].name = name
  \/ \E f \in xmlsplit : f.name = name

FileLines(name) ==
  IF \E k \in 1..Len(ListDir) : ListDir[k].name = name
  THEN Content(ListDir[CHOOSE k \in 1..Len(ListDir) : ListDir[k].name = name].content)
  ELSE IF \E f \in xmlsplit : f.name = name
  THEN Content((CHOOSE f \in xmlsplit : f.name = name).content)
  ELSE << >>

\* what worker w does with the file system answering as nd says
ThreadResult(w, nd) ==
  GoAuditParser_Thread(wk[w].fileconfig, FilePresent(wk[w].fileconfig.InputFileName),
                       FileLines(wk[w].fileconfig.InputFileName), options, outfiles, nd)

\* the end of GoAuditParser_Thread with result res: its send on c, or a panic
\* of the goroutine, which ends the process
WorkerEnd(w, res) ==
  IF res.out = "panic"
  THEN pc' = "panicked" /\ wk' = [wk EXCEPT ![w].st = "panicked"] /\ outfiles' = outfiles
  ELSE /\ pc' = pc
       /\ wk' = [wk EXCEPT ![w].st = "sending", ![w].res = res]
       /\ outfiles' = outfiles \cup ({res.temp, res.final} \ {<< >>})

\* GoAuditParser_Thread from its start to its end
WorkerRun(w, nd) ==
  /\ pc \notin Ended
  /\ w \in DOMAIN wk
  /\ wk[w].st = "running"
  /\ nd = "none" \/ (faults > 0 /\ ThreadResult(w, nd) # ThreadResult(w, "none"))
  /\ faults' = IF nd = "none" THEN faults ELSE faults - 1
  /\ WorkerEnd(w, ThreadResult(w, nd))
  /\ UNCHANGED << args, options, indir, xmlsplit, cachefile, run, files, config, i, done,
                  threadbuffer, threadMessages, filesize_total, counts, tqdm, dbg, pending,
                  lastsave >>

(* ------------------------- the Debug goroutine ------------------------ *)

\* the default branch after 30 seconds: len(stats) != 0, the range begins
DebugBeginRead ==
  /\ pc \notin Ended
  /\ dbg.pc = "select"
  /\ options.Verbose < 3
  /\ dbg.stats = "ref"
  /\ threadbuffer # {}
  /\ dbg' = [dbg EXCEPT !.pc = "reading"]
  /\ UNCHANGED << args, faults, options, disk, run, pc, files, config, i, done, wk,
                  threadbuffer, threadMessages, filesize_total, counts, tqdm, pending,
                  lastsave >>

\* the range is over; back to the select
DebugEndRead ==
  /\ pc \notin Ended
  /\ dbg.pc = "reading"
  /\ dbg' = [dbg EXCEPT !.pc = "select"]
  /\ UNCHANGED << args, faults, options, disk, run, pc, files, config, i, done, wk,
                  threadbuffer, threadMessages, filesize_total, counts, tqdm, pending,
                  lastsave >>

(* -------------------------- the batch machine ------------------------- *)

Next ==
  \/ \E saveok \in BOOLEAN : StartRun(saveok)
  \/ \E crash \in BOOLEAN : CoordLaunch(crash)
  \/ CoordDebugSend
  \/ \E w \in 0..MaxFiles, crash \in BOOLEAN : CoordRecv(w, crash)
  \/ \E saveok \in BOOLEAN : CoordProgress(saveok)
  \/ \E w \in 0..MaxFiles, nd \in ThreadChoices : WorkerRun(w, nd)
  \/ DebugBeginRead
  \/ DebugEndRead

Spec == Init /\ [][Next]_vars

(* ------------------- runs that are cancelled and resumed -------------- *)

\* the process is killed; what it wrote to disk stays
Kill ==
  /\ pc \notin Ended
  /\ pc' = "killed"
  /\ files' = << >> /\ config' = << >> /\ i' = 0 /\ done' = NoReturn /\ wk' = << >>
  /\ threadbuffer' = {} /\ threadMessages' = << >> /\ filesize_total' = 0
  /\ counts' = NoCounts /\ tqdm' = -1 /\ dbg' = [pc |-> "off", stats |-> "nil"]
  /\ pending' = 0 /\ lastsave' = "none"
  /\ UNCHANGED << args, faults, options, disk, run >>

InitResume ==
  /\ args \in { [options |-> Options(1, 0, FALSE, s), Runs |-> MaxRuns, Force |-> f] :
                s \in BOOLEAN, f \in [1..MaxRuns -> BOOLEAN] }
  /\ faults = 0
  /\ options = args.options
  /\ indir \in SubSeqs(ResumeUniverse, MaxFiles)
  /\ xmlsplit = {}
  /\ outfiles = {}
  /\ cachefile = [exists |-> FALSE, xml |-> << >>]
  /\ run = 0
  /\ pc = "idle"
  /\ Stopped

NextResume ==
  \/ StartRun(TRUE)
  \/ CoordLaunch(FALSE)
  \/ \E w \in 0..(2 * MaxFiles) : CoordRecv(w, FALSE)
  \/ CoordProgress(TRUE)
  \/ \E w \in 0..(2 * MaxFiles) : WorkerRun(w, "none")
  \/ Kill

SpecResume == InitResume /\ [][NextResume]_vars

(* --------------------- the output paths of two files ------------------ *)

\* names for two files of one run: standard names that differ in one part,
\* and names outside the naming scheme
PathUniverse ==
  << File(<<"a", "-", "b", ".xml">>, 60000000, "good"),
     File(<<"a", "_", "b", ".xml">>, 60000000, "good"),
     File(<<"h", "-", "a", "-", "p", "-", "x", ".xml">>, 60000000, "good"),
     File(<<"h", "-", "a", "-", "p", "-", "y", ".xml">>, 60000000, "good"),
     File(<<"h", "-", "a", "-", "q", "-", "x", ".xml">>, 60000000, "good"),
     File(<<"h", "-", "b", "-", "p", "-", "x", ".xml">>, 60000000, "good"),
     File(<<"i", "-", "a", "-", "p", "-", "x", ".xml">>, 60000000, "good") >>

InitPaths ==
  /\ args \in { [options |-> [Options(2, 0, FALSE, FALSE) EXCEPT
                                !.ParseAltHostname = pah, !.ParseAltAgentID = paa,
                                !.ParseCSVFormat = fmt],
                 Runs |-> 0, Force |-> << >>] :
                pah \in {<< >>, <<"H">>}, paa \in {<< >>, <<"A">>}, fmt \in {1, 2} }
  /\ faults = 0
  /\ options = args.options
  /\ indir \in { fs \in SubSeqs(PathUniverse, 2) : Len(fs) = 2 }
  /\ xmlsplit = {}
  /\ outfiles = {}
  /\ cachefile = [exists |-> FALSE, xml |-> << >>]
  /\ run = 1
  /\ pc = "paths"
  /\ files = indir
  /\ config = << >>
  /\ i = 0
  /\ done = NoReturn
  /\ wk = [w \in 0..1 |-> [st |-> "running",
                           fileconfig |-> GetXMLParseConfig_File(indir[w + 1], << >>),
                           res |-> << >>]]
  /\ threadbuffer = {}
  /\ threadMessages = << >>
  /\ filesize_total = 0
  /\ counts = NoCounts
  /\ tqdm = -1
  /\ dbg = [pc |-> "off", stats |-> "nil"]
  /\ pending = 0
  /\ lastsave = "none"

\* worker w reaches its first audit item and builds csvFilePath and csvFilePathTemp
ThreadPaths(w) ==
  /\ pc = "paths"
  /\ w \in DOMAIN wk
  /\ wk[w].st = "running"
  /\ LET n == wk[w].fileconfig.InputFileName
         auditType == AuditTypeSubmatch(FileLines(n)[3])
     IN wk' = [wk EXCEPT ![w].st = "paths",
                         ![w].res = [temp |-> CsvFilePathTemp(n, auditType, options),
                                     final |-> CsvFilePath(n, auditType, options)]]
  /\ UNCHANGED << args, faults, options, disk, run, pc, files, config, i, done, threadbuffer,
                  threadMessages, filesize_total, counts, tqdm, dbg, pending, lastsave >>

NextPaths == \E w \in 0..1 : ThreadPaths(w)

SpecPaths == InitPaths /\ [][NextPaths]_vars

(* ------------------------ runs with automatic split ------------------- *)

\* files of a run with -xs: one above the split size, one of exactly the
\* split size, one above it whose name has fewer than four parts, a small one
SplitUniverse ==
  << File(<<"a", "-", "b", ".xml">>, 400000000, "good"),
     File(<<"h", "-", "a", "-", "p1", "-", "x", ".xml">>, 400000000, "good"),
     File(<<"h", "-", "a", "-", "p4", "-", "x", ".xml">>, 300000000, "good"),
     File(<<"h", "-", "a", "-", "p6", "-", "x", ".xml">>, 60000000, "empty") >>

InitSplit ==
  /\ args \in { [options |-> Options(t, 0, FALSE, TRUE), Runs |-> 1, Force |-> << FALSE >>] :
                t \in 1..2 }
  /\ faults = 0
  /\ options = args.options
  /\ indir \in SubSeqs(SplitUniverse, MaxFiles)
  /\ xmlsplit = {}
  /\ outfiles = {}
  /\ cachefile = [exists |-> FALSE, xml |-> << >>]
  /\ run = 0
  /\ pc = "idle"
  /\ Stopped

SpecSplit == InitSplit /\ [][NextResume]_vars

(* ------------------- one file through the line loop ------------------- *)
(* A run with one file and one thread, the worker's line loop taken one    *)
(* line at a time.  The file's lines are chosen while they are read:       *)
(* wk[0].lines are those read so far, wk[0].ps is the state of the loop    *)
(* after them.  The files are those that pass the probe of the first three *)
(* lines as normal-style audits.                                           *)

\* the largest number of lines of a file
MaxLines == 6

\* the lines a file is made of
ParseAlphabet ==
  { XmlLine, ItemList,
    L("itemopen", "X", << >>, "", {"created"}),
    L("open", "A", << >>, "", {}),
    L("openval", "A", <<"v">>, "", {}),
    L("close", "A", <<" ">>, "", {}),
    L("valclose", "A", <<"w">>, "", {}),
    L("single", "F", <<"v">>, "F", {}),
    L("single", "F", <<"w">>, "F", {}),
    L("text", "", <<"t">>, "", {}),
    L("close", "X", <<" ">>, "", {}),
    L("listclose", "", << >>, "", {}),
    L("debugopen", "", << >>, "", {}),
    L("debugclose", "", << >>, "", {}),
    L("junk", "", <<"<", "File was split", ".">>, "", {}) }

\* file names: a plain one, and one whose payload part reads like a result
ParseNames ==
  { <<"h", "-", "a", "-", "p", "-", "x", ".xml">>,
    <<"h", "-", "a", "-", "parsed successfully", "-", "x", ".xml">> }

\* file sizes: one read in one piece, one read with a scanner
ParseSizes == { 60000000, ScannerThreshold }

InitParse ==
  /\ args \in { [options |-> [Options(1, 0, FALSE, FALSE) EXCEPT !.ReplaceNewLineFeeds = r],
                 Runs |-> 1, Force |-> << FALSE >>] : r \in BOOLEAN }
  /\ faults = 0
  /\ options = args.options
  /\ indir \in { << File(n, s, "lines") >> : n \in ParseNames, s \in ParseSizes }
  /\ xmlsplit = {}
  /\ outfiles = {}
  /\ cachefile = [exists |-> TRUE, xml |-> << >>]
  /\ run = 1
  /\ pc = "drecv"
  /\ files = indir
  /\ config = GetXMLParseConfig_Config(indir[1], << >>)
  /\ i = 0
  /\ done = NoReturn
  /\ wk = [w \in {0} |-> [st |-> "running",
                          fileconfig |-> GetXMLParseConfig_File(indir[1], << >>),
                          res |-> << >>, lines |-> << >>, ps |-> ParserInit]]
  /\ threadbuffer = {0}
  /\ threadMessages = << >>
  /\ filesize_total = 0
  /\ counts = NoCounts
  /\ tqdm = 1
  /\ dbg = [pc |-> "off", stats |-> "nil"]
  /\ pending = 0
  /\ lastsave = "none"

\* auditType: the first tag of the third line
ParseAuditType(lines) == IF Len(lines) >= 3 THEN AuditTypeSubmatch(lines[3]) ELSE << >>

\* what the line loop of the worker reads besides the lines
ParseCtx(lines) ==
  LoopCtx(wk[0].fileconfig, ParseAuditType(lines), options, outfiles, "none")

\* the lines the probe lets through to the normal-style loop
ProbePasses(lines, line) ==
  /\ Len(lines) = 0 => line = XmlLine
  /\ Len(lines) = 1 => line = ItemList
  /\ Len(lines) = 2 => AuditTypeSubmatch(line) # << >>

\* the loop reads one more line
ParseLine(line) ==
  /\ pc = "drecv"
  /\ wk[0].st = "running"
  /\ wk[0].ps.out = ""
  /\ Len(wk[0].lines) < MaxLines
  /\ ProbePasses(wk[0].lines, line)
  /\ wk' = [wk EXCEPT ![0].lines = Append(@, line),
                      ![0].ps = NormalStep(@, line, ParseCtx(Append(wk[0].lines, line)))]
  /\ UNCHANGED << args, faults, options, disk, run, pc, files, config, i, done, threadbuffer,
                  threadMessages, filesize_total, counts, tqdm, dbg, pending, lastsave >>

\* the file has no more lines: the scanner stops, strings.Split has one more
\* empty line
ParseEof ==
  /\ pc = "drecv"
  /\ wk[0].st = "running"
  /\ wk[0].ps.out = ""
  /\ Len(wk[0].lines) >= 3
  /\ wk' = [wk EXCEPT ![0].st = "eof",
                      ![0].ps = RunLines(@, LoopLines(wk[0].fileconfig, << >>), ParseCtx(wk[0].lines))]
  /\ UNCHANGED << args, faults, options, disk, run, pc, files, config, i, done, threadbuffer,
                  threadMessages, filesize_total, counts, tqdm, dbg, pending, lastsave >>

\* the loop is over: what follows it, up to the send on c
ParseEnd ==
  /\ pc = "drecv"
  /\ wk[0].st = "eof" \/ (wk[0].st = "running" /\ wk[0].ps.out # "")
  /\ WorkerEnd(0, ThreadNormalEnd(wk[0].fileconfig, ParseAuditType(wk[0].lines), options,
                                  "none", wk[0].ps))
  /\ UNCHANGED << args, faults, options, indir, xmlsplit, cachefile, run, files, config, i,
                  done, threadbuffer, threadMessages, filesize_total, counts, tqdm, dbg,
                  pending, lastsave >>

NextParse ==
  \/ \E line \in ParseAlphabet : ParseLine(line)
  \/ ParseEof
  \/ ParseEnd
  \/ CoordRecv(0, FALSE)
  \/ CoordProgress(TRUE)

SpecParse == InitParse /\ [][NextParse]_vars

(* ----------------------- a worker writes its rows --------------------- *)
(* GoAuditParser_Thread after the line loop, with rows to write, for the   *)
(* normal dialect and (event) for a table of an event dialect: wk[0].nrows *)
(* data rows, off the index i of the chunk loop, k the number of the split *)
(* file that is open, parts what was written to each file, in the order of *)
(* the files: hdr header rows and the data rows first..last.  In the       *)
(* normal dialect csvFilePathTemp was created in the line loop; in the     *)
(* event dialects csvRows[0] is the header row.  Every os.Create and       *)
(* os.Rename may fail.                                                     *)

\* the rows of one Excel-friendly output file
ExcelRows == 999999

\* the largest number of full chunks of rows
MaxChunks == 2

WriteAuditType == <<"X">>

\* the audit type in the file names: "EventItem_" + eventType for an event table
WriteItemName(event) == IF event THEN <<"EventItem_X">> ELSE WriteAuditType

\* splitfilepath of split file k; splitfilepathtemp adds ".incomplete"
SplitFilePath(xmlFileName, auditType, opts, k) ==
  LET p == FileNameParts(xmlFileName, opts)
  IN opts.OutputPath \o <<"/">> \o p.hostname \o <<"-">> \o p.agentid \o <<"-">>
       \o p.payload \o <<"_spcsv", ToString(k)>> \o <<"-">> \o auditType \o <<".csv">>

SplitFilePathTemp(xmlFileName, auditType, opts, k) ==
  SplitFilePath(xmlFileName, auditType, opts, k) \o <<".incomplete">>

\* len(csvRows): the data rows, and the header row in the event dialects
CsvRowsLen(w) == w.nrows + (IF w.event THEN 1 ELSE 0)

\* csvout.Write(csvHeaders); csvout.WriteAll(csvRows[a:b])
ChunkRows(event, a, b) ==
  [hdr |-> IF event /\ a = 0 THEN 2 ELSE 1,
   first |-> IF event THEN (IF a = 0 THEN 1 ELSE a) ELSE a + 1,
   last |-> IF event THEN b - 1 ELSE b]

\* csvout.Write(csvHeaders); csvout.WriteAll(csvRows) of the normal dialect,
\* csvout.WriteAll(csvRows) of the event dialects
WholeFile(w) == [hdr |-> 1, first |-> 1, last |-> w.nrows]

\* a file that was created and nothing written to
NothingWritten(w) == [hdr |-> 0, first |-> w.nrows + 1, last |-> w.nrows]

InitWrite ==
  /\ args \in { [options |-> Options(1, 0, FALSE, FALSE) @@ [ExcelFriendly |-> e],
                 Runs |-> 1, Force |-> << FALSE >>] : e \in BOOLEAN }
  /\ faults = 0
  /\ options = args.options
  /\ indir \in { << File(n, 60000000, "rows") >> : n \in ParseNames }
  /\ xmlsplit = {}
  /\ cachefile = [exists |-> TRUE, xml |-> << >>]
  /\ run = 1
  /\ pc = "write"
  /\ files = indir
  /\ config = GetXMLParseConfig_Config(indir[1], << >>)
  /\ i = 0
  /\ done = NoReturn
  /\ wk \in { [w \in {0} |-> [st |-> "rows",
                              fileconfig |-> GetXMLParseConfig_File(indir[1], << >>),
                              res |-> << >>, nrows |-> n, off |-> 0, k |-> 0,
                              event |-> ev, parts |-> << >>]] :
              n \in { c * ExcelRows + d : c \in 0..MaxChunks, d \in 0..2 } \ {0},
              ev \in BOOLEAN }
  /\ outfiles = IF wk[0].event THEN {}
                ELSE { CsvFilePathTemp(indir[1].name, WriteAuditType, options) }
  /\ threadbuffer = {0}
  /\ threadMessages = << >>
  /\ filesize_total = 0
  /\ counts = NoCounts
  /\ tqdm = 1
  /\ dbg = [pc |-> "off", stats |-> "nil"]
  /\ pending = 0
  /\ lastsave = "none"

\* c <- ThreadReturn_Parse{.., msg}; return, with parts written
WriteSend(msg, parts) ==
  wk' = [wk EXCEPT ![0].st = "sending", ![0].res = [out |-> "ret", msg |-> msg],
                   ![0].parts = parts]

\* os.Rename(from, to)
Renamed(dir, from, to) == (dir \ {from}) \cup {to}

\* the write of the whole table to one file, and its rename
WriteWhole(nd, n, temp, final) ==
  CASE nd = "create" /\ wk[0].event ->
         /\ WriteSend(MsgCouldNotParse(n, "Could not create file", temp), wk[0].parts)
         /\ outfiles' = outfiles
    [] nd = "rename" ->
         /\ WriteSend(MsgRename(CsvFilePathTemp(n, WriteAuditType, options),
                                CsvFilePath(n, WriteAuditType, options)),
                      Append(wk[0].parts, WholeFile(wk[0])))
         /\ outfiles' = outfiles \cup {temp}
    [] nd = "none" ->
         /\ WriteSend(MsgSuccess(n), Append(wk[0].parts, WholeFile(wk[0])))
         /\ outfiles' = Renamed(outfiles, temp, final)
    [] OTHER -> FALSE

\* the choice between one output file and numbered ones, and the first create
\* or, without Excel-friendly splitting, the whole write and its rename
WriteStart(nd) ==
  /\ pc = "write"
  /\ wk[0].st = "rows"
  /\ LET n == wk[0].fileconfig.InputFileName
         temp1 == SplitFilePathTemp(n, WriteItemName(wk[0].event), options, 1)
         final1 == SplitFilePath(n, WriteItemName(wk[0].event), options, 1)
     IN IF options.ExcelFriendly /\ CsvRowsLen(wk[0]) > ExcelRows
        THEN /\ nd \in {"none", "create"}
             /\ IF nd = "create"
                THEN WriteSend(MsgCreateSplit(temp1, final1), wk[0].parts) /\ outfiles' = outfiles
                ELSE /\ wk' = [wk EXCEPT ![0].st = "chunk", ![0].off = 0, ![0].k = 1]
                     /\ outfiles' = outfiles \cup {temp1}
        ELSE WriteWhole(nd, n, CsvFilePathTemp(n, WriteItemName(wk[0].event), options),
                        CsvFilePath(n, WriteItemName(wk[0].event), options))
  /\ UNCHANGED << args, faults, options, indir, xmlsplit, cachefile, run, pc, files, config, i,
                  done, threadbuffer, threadMessages, filesize_total, counts, tqdm, dbg,
                  pending, lastsave >>

\* the end of the chunk loop: by break after the last chunk, or by its condition
WriteLast ==
  /\ wk' = [wk EXCEPT ![0].st = "flush",
                      ![0].parts =
                        Append(@, IF wk[0].off < CsvRowsLen(wk[0])
                                  THEN ChunkRows(wk[0].event, wk[0].off, CsvRowsLen(wk[0]))
                                  ELSE NothingWritten(wk[0]))]
  /\ outfiles' = outfiles

\* one iteration of for i := 0; i < len(csvRows); i += 999999
WriteChunk(nd) ==
  /\ pc = "write"
  /\ wk[0].st = "chunk"
  /\ LET n == wk[0].fileconfig.InputFileName
         k == wk[0].k
         tempk == SplitFilePathTemp(n, WriteItemName(wk[0].event), options, k)
         finalk == SplitFilePath(n, WriteItemName(wk[0].event), options, k)
         tempn == SplitFilePathTemp(n, WriteItemName(wk[0].event), options, k + 1)
         finaln == SplitFilePath(n, WriteItemName(wk[0].event), options, k + 1)
         isLastChunk == wk[0].off + ExcelRows > CsvRowsLen(wk[0])
         written == Append(wk[0].parts,
                           ChunkRows(wk[0].event, wk[0].off, wk[0].off + ExcelRows))
     IN IF wk[0].off >= CsvRowsLen(wk[0]) \/ isLastChunk
        THEN nd = "none" /\ WriteLast
        ELSE CASE nd = "rename" -> WriteSend(MsgRename(tempk, finalk), written) /\ outfiles' = outfiles
               [] nd = "create" -> /\ WriteSend(MsgCreateSplit(tempn, finaln), written)
                                   /\ outfiles' = Renamed(outfiles, tempk, finalk)
               [] nd = "none" -> /\ wk' = [wk EXCEPT ![0].off = @ + ExcelRows, ![0].k = k + 1,
                                                     ![0].parts = written]
                                 /\ outfiles' = Renamed(outfiles, tempk, finalk) \cup {tempn}
               [] OTHER -> FALSE
  /\ UNCHANGED << args, faults, options, indir, xmlsplit, cachefile, run, pc, files, config, i,
                  done, threadbuffer, threadMessages, filesize_total, counts, tqdm, dbg,
                  pending, lastsave >>

\* after the chunk loop: Flush, Close and the rename of the last split file
WriteFlush(nd) ==
  /\ pc = "write"
  /\ wk[0].st = "flush"
  /\ nd \in {"none", "rename"}
  /\ LET n == wk[0].fileconfig.InputFileName
         tempk == SplitFilePathTemp(n, WriteItemName(wk[0].event), options, wk[0].k)
         finalk == SplitFilePath(n, WriteItemName(wk[0].event), options, wk[0].k)
     IN IF nd = "rename"
        THEN /\ WriteSend(MsgRename(CsvFilePathTemp(n, WriteAuditType, options),
                                    CsvFilePath(n, WriteAuditType, options)), wk[0].parts)
             /\ outfiles' = outfiles
        ELSE WriteSend(MsgSuccess(n), wk[0].parts) /\ outfiles' = Renamed(outfiles, tempk, finalk)
  /\ UNCHANGED << args, faults, options, indir, xmlsplit, cachefile, run, pc, files, config, i,
                  done, threadbuffer, threadMessages, filesize_total, counts, tqdm, dbg,
                  pending, lastsave >>

NextWrite ==
  \/ \E nd \in ThreadChoices : WriteStart(nd)
  \/ \E nd \in ThreadChoices : WriteChunk(nd)
  \/ \E nd \in ThreadChoices : WriteFlush(nd)

SpecWrite == InitWrite /\ [][NextWrite]_vars

(* ---------------------- the row of one record ------------------------- *)
(* The calls of add_value_to_row_normal and add_value_to_row_eventbuffer   *)
(* while records are read, in any order the parsers may make them: a field *)
(* occurrence (existingGetsNewLine true), one more line of the field that  *)
(* is open (false), and the end of the record.  Both functions get the     *)
(* same fields.  wk[0] holds                                               *)
(*   headers, row, rows      of the normal-style parser                    *)
(*   evheaders, evrow, evrows  of one event type (a map from names to ids  *)
(*                           and rows of RowValue [colid, value])          *)
(*   hist      the occurrences of the open record, as [h, v]: the column   *)
(*             and the value as it is stored                               *)
(*   nadds     the calls made so far                                       *)

\* the largest number of calls of each function
MaxAdds == 3

\* the field names, the nesting paths and the values of the calls
RowFields == { <<"F">>, <<"G">> }
RowPaths == { << >>, << <<"A">> >> }
RowValues == { <<"v">>, << >>, <<"2020-10-05T18:01:05Z">>, <<"a", "\n", "b">> }

\* the headers of a new event type (auditparser.go: Hostname 0, AgentID 1)
NewEventHeaders ==
  [h \in { <<"Hostname">>, <<"AgentID">> } |-> IF h = <<"Hostname">> THEN 0 ELSE 1]

InitRow ==
  /\ args \in { [options |-> [Options(1, 0, FALSE, FALSE) EXCEPT !.ReplaceNewLineFeeds = r],
                 Runs |-> 1, Force |-> << FALSE >>] : r \in BOOLEAN }
  /\ faults = 0
  /\ options = args.options
  /\ indir = << >>
  /\ xmlsplit = {}
  /\ outfiles = {}
  /\ cachefile = [exists |-> TRUE, xml |-> << >>]
  /\ run = 1
  /\ pc = "row"
  /\ files = << >>
  /\ config = << >>
  /\ i = 0
  /\ done = NoReturn
  /\ wk = [w \in {0} |-> [st |-> "running", headers |-> << >>, row |-> EmptyRow,
                          rows |-> << >>, evheaders |-> NewEventHeaders, evrow |-> << >>,
                          evrows |-> << >>, hist |-> << >>, nadds |-> 0]]
  /\ threadbuffer = {0}
  /\ threadMessages = << >>
  /\ filesize_total = 0
  /\ counts = NoCounts
  /\ tqdm = 1
  /\ dbg = [pc |-> "off", stats |-> "nil"]
  /\ pending = 0
  /\ lastsave = "none"

\* the column a field at this nesting path is stored under
ColumnName(header, headerPathParts) ==
  IF Len(headerPathParts) > 0 THEN Join(headerPathParts, ".") \o <<".">> \o header ELSE header

\* a value after parse_time and the replacement of new lines
StoredValue(value) ==
  IF options.ReplaceNewLineFeeds THEN ReplaceNewLines(parse_time(value)) ELSE parse_time(value)

\* hist with v appended to the last occurrence of column c
ExtendLast(hist, c, v) ==
  LET k == CHOOSE j \in 1..Len(hist) :
             hist[j].h = c /\ \A m \in (j + 1)..Len(hist) : hist[m].h # c
  IN [hist EXCEPT ![k].v = @ \o v]

\* wk after both functions have run, with the results n and e
RowCalled(n, e, hist1) ==
  wk' = [wk EXCEPT ![0].headers = n.headers, ![0].row = n.row,
                   ![0].evheaders = e.headers, ![0].evrow = e.row,
                   ![0].hist = hist1, ![0].nadds = @ + 1]

\* a field of the record: both functions are called with existingGetsNewLine true
RowAdd(header, value, hpp) ==
  /\ pc = "row"
  /\ wk[0].nadds < MaxAdds
  /\ RowCalled(add_value_to_row_normal(header, value, hpp, wk[0].headers, wk[0].row,
                                       options, TRUE, TRUE),
               add_value_to_row_eventbuffer(ColumnName(header, hpp), value, wk[0].evheaders,
                                            wk[0].evrow, options, TRUE),
               Append(wk[0].hist, [h |-> ColumnName(header, hpp), v |-> StoredValue(value)]))
  /\ UNCHANGED << args, faults, options, disk, run, pc, files, config, i, done, threadbuffer,
                  threadMessages, filesize_total, counts, tqdm, dbg, pending, lastsave >>

\* one more line of a field the record already has: existingGetsNewLine false
RowMore(header, value, hpp) ==
  /\ pc = "row"
  /\ wk[0].nadds < MaxAdds
  /\ \E k \in 1..Len(wk[0].hist) : wk[0].hist[k].h = ColumnName(header, hpp)
  /\ RowCalled(add_value_to_row_normal(header, value, hpp, wk[0].headers, wk[0].row,
                                       options, FALSE, TRUE),
               add_value_to_row_eventbuffer(ColumnName(header, hpp), value, wk[0].evheaders,
                                            wk[0].evrow, options, FALSE),
               ExtendLast(wk[0].hist, ColumnName(header, hpp), StoredValue(value)))
  /\ UNCHANGED << args, faults, options, disk, run, pc, files, config, i, done, threadbuffer,
                  threadMessages, filesize_total, counts, tqdm, dbg, pending, lastsave >>

\* the record ends: rows = append(rows, row) and a new row
RowNew ==
  /\ pc = "row"
  /\ wk[0].hist # << >>
  /\ wk' = [wk EXCEPT ![0].rows = Append(@, wk[0].row), ![0].row = EmptyRow,
                      ![0].evrows = Append(@, wk[0].evrow), ![0].evrow = << >>,
                      ![0].hist = << >>]
  /\ UNCHANGED << args, faults, options, disk, run, pc, files, config, i, done, threadbuffer,
                  threadMessages, filesize_total, counts, tqdm, dbg, pending, lastsave >>

NextRow ==
  \/ \E h \in RowFields, v \in RowValues, p \in RowPaths : RowAdd(h, v, p)
  \/ \E h \in RowFields, v \in RowValues, p \in RowPaths : RowMore(h, v, p)
  \/ RowNew

SpecRow == InitRow /\ [][NextRow]_vars

(* ------------------------- the output columns ------------------------- *)
(* csvHeaders, the header row of an output file, from the header table of  *)
(* the file (or of an event type) and options.Config.  Column names are    *)
(* strings here.  A run ranges over the header map in an order of its own. *)
(* wk[0] holds                                                             *)
(*   Config     HeadersMandatory, HeadersOptional, AuditHeaderConfigs (each *)
(*              with ItemName, HeaderOrder, HeadersOmitted), OmitUnlisted  *)
(*   headers    the names of the header table                              *)
(*   auditType  the audit type, or the event type of the table             *)
(*   event      whether the file is of an event dialect                    *)
(*   runs       the csvHeaders of the runs made so far                     *)

\* how many times the file is parsed
MaxColRuns == 2

\* strings.ToLower, on the names of the model
ToLower(s) ==
  CASE s = "Hostname" -> "hostname"
    [] s = "AgentID" -> "agentid"
    [] s = "EventBufferType" -> "eventbuffertype"
    [] s = "Path" -> "path"
    [] s = "Log" -> "log"
    [] s = "EventItem_X" -> "eventitem_x"
    [] s = "X" -> "x"
    [] OTHER -> s

\* the place of a lower-case name in the order of the strings
StrRank(s) ==
  CASE s = "agentid" -> 1
    [] s = "args.arg" -> 2
    [] s = "eventbuffertype" -> 3
    [] s = "hostname" -> 4
    [] s = "msg" -> 5
    [] s = "msg_full" -> 6
    [] s = "path" -> 7

\* less of the sort: strings.ToLower(a) < strings.ToLower(b)
LessFold(a, b) == StrRank(ToLower(a)) < StrRank(ToLower(b))

\* all sequences of length 0..n over S
SeqsUpTo(S, n) == UNION { [1..k -> S] : k \in 0..n }

\* the orders a range over a map with the keys S can take
MapOrders(S) ==
  { s \in [1..Cardinality(S) -> S] : \A j, k \in 1..Cardinality(S) : s[j] = s[k] => j = k }

\* insertion of x into a sorted slice: x moves left while it is less than its neighbour
InsertSorted(sorted, x) ==
  LET stop == IF \E k \in 1..Len(sorted) : ~LessFold(x, sorted[k])
          THEN CHOOSE k \in 1..Len(sorted) :
                 ~LessFold(x, sorted[k]) /\ \A j \in (k + 1)..Len(sorted) : LessFold(x, sorted[j])
          ELSE 0
  IN SubSeq(sorted, 1, stop) \o << x >> \o SubSeq(sorted, stop + 1, Len(sorted))

\* sort.Slice of a short slice (here at most 4 elements): insertion sort
RECURSIVE SortSlice(_)
SortSlice(s) ==
  IF Len(s) = 0 THEN << >>
  ELSE InsertSorted(SortSlice(SubSeq(s, 1, Len(s) - 1)), s[Len(s)])

\* configindex: the first entry whose ItemName is the item name but for case, 0 if none
ConfigIndex_exact(cfg, itemName) ==
  IF \E k \in 1..Len(cfg.AuditHeaderConfigs) : cfg.AuditHeaderConfigs[k].ItemName = itemName
  THEN CHOOSE k \in 1..Len(cfg.AuditHeaderConfigs) :
         /\ cfg.AuditHeaderConfigs[k].ItemName = itemName
         /\ \A j \in 1..(k - 1) : cfg.AuditHeaderConfigs[j].ItemName # itemName
  ELSE 0

ConfigIndex(cfg, itemName) ==
  IF \E k \in 1..Len(cfg.AuditHeaderConfigs) :
       ToLower(cfg.AuditHeaderConfigs[k].ItemName) = ToLower(itemName)
  THEN CHOOSE k \in 1..Len(cfg.AuditHeaderConfigs) :
         /\ ToLower(cfg.AuditHeaderConfigs[k].ItemName) = ToLower(itemName)
         /\ \A j \in 1..(k - 1) :
              ToLower(cfg.AuditHeaderConfigs[j].ItemName) # ToLower(itemName)
  ELSE 0

\* the item name the entries are matched with
ItemNameOf(auditType, event) == IF event THEN "EventItem_" \o auditType ELSE auditType

\* csvHeaders before the remaining headers: mandatory, optional, header order
ListedHeaders(cfg, headers, configindex, event) ==
  cfg.HeadersMandatory
  \o SelectSeq(cfg.HeadersOptional,
               LAMBDA h : h \in headers \/ (event /\ h = "EventBufferType"))
  \o (IF configindex # 0 THEN cfg.AuditHeaderConfigs[configindex].HeaderOrder ELSE << >>)

RemainingHeaders_fold(cfg, configindex, listed, order) ==
  LET remainingHeaders ==
        SortSlice(SelectSeq(order, LAMBDA h : \A k \in 1..Len(listed) : ToLower(listed[k]) # ToLower(h)))
  IN IF configindex = 0 THEN remainingHeaders
     ELSE SelectSeq(remainingHeaders,
                    LAMBDA h : h \notin SeqToSet(cfg.AuditHeaderConfigs[configindex].HeadersOmitted))

\* remainingHeaders: the headers not listed, in the order of the map, sorted,
\* without the omitted ones of the entry
RemainingHeaders(cfg, configindex, listed, order) ==
  LET remainingHeaders == SortSlice(SelectSeq(order, LAMBDA h : h \notin SeqToSet(listed)))
  IN IF configindex = 0 THEN remainingHeaders
     ELSE SelectSeq(remainingHeaders,
                    LAMBDA h : h \notin SeqToSet(cfg.AuditHeaderConfigs[configindex].HeadersOmitted))

\* the LOG file fix of the normal parser: msg_full after args.arg and msg
LogFix(csvHeaders, auditType, event) ==
  IF ~event /\ ToLower(auditType) = "log"
     /\ "args.arg" \in SeqToSet(csvHeaders) /\ "msg" \in SeqToSet(csvHeaders)
  THEN Append(csvHeaders, "msg_full")
  ELSE csvHeaders

\* csvHeaders with the listed headers and the configindex at hand
CsvHeadersFrom(cfg, configindex, listed, auditType, event, order) ==
  LogFix(IF cfg.OmitUnlisted THEN listed
         ELSE listed \o RemainingHeaders(cfg, configindex, listed, order),
         auditType, event)

\* csvHeaders of a run that ranges over the header map in this order
CsvHeaders(cfg, headers, auditType, event, order) ==
  CsvHeadersFrom(cfg, ConfigIndex(cfg, ItemNameOf(auditType, event)),
                 ListedHeaders(cfg, headers, ConfigIndex(cfg, ItemNameOf(auditType, event)), event),
                 auditType, event, order)

\* the configurations: lists that may overlap, no entry or one entry
ColConfigs ==
  { [HeadersMandatory |-> m, HeadersOptional |-> o, AuditHeaderConfigs |-> a, OmitUnlisted |-> u] :
      m \in SeqsUpTo({"Hostname", "path"}, 1),
      o \in SeqsUpTo({"path", "EventBufferType", "msg"}, 1),
      a \in { << >> } \cup
            { << [ItemName |-> n, HeaderOrder |-> ho, HeadersOmitted |-> om] >> :
                n \in {"log", "eventitem_x"},
                ho \in SeqsUpTo({"path", "msg"}, 2),
                om \in SeqsUpTo({"Path", "msg"}, 1) },
      u \in BOOLEAN }

\* the header tables and audit types: of a normal file, and of an event type
ColTables ==
  { [headers |-> h, auditType |-> t, event |-> FALSE] :
      h \in SUBSET {"path", "Path", "msg", "args.arg"}, t \in {"Log", "X"} }
  \cup { [headers |-> h \cup {"Hostname", "AgentID"}, auditType |-> "X", event |-> TRUE] :
           h \in SUBSET {"path", "Path"} }

InitCols ==
  /\ args = [options |-> Options(1, 0, FALSE, FALSE), Runs |-> MaxColRuns, Force |-> << FALSE, FALSE >>]
  /\ faults = 0
  /\ options = args.options
  /\ indir = << >>
  /\ xmlsplit = {}
  /\ outfiles = {}
  /\ cachefile = [exists |-> TRUE, xml |-> << >>]
  /\ run = 1
  /\ pc = "cols"
  /\ files = << >>
  /\ config = << >>
  /\ i = 0
  /\ done = NoReturn
  /\ \E cfg \in ColConfigs, t \in ColTables :
       wk = [w \in {0} |-> [st |-> "running", Config |-> cfg, headers |-> t.headers,
                            auditType |-> t.auditType, event |-> t.event, runs |-> << >>]]
  /\ threadbuffer = {0}
  /\ threadMessages = << >>
  /\ filesize_total = 0
  /\ counts = NoCounts
  /\ tqdm = 1
  /\ dbg = [pc |-> "off", stats |-> "nil"]
  /\ pending = 0
  /\ lastsave = "none"

\* one run computes the header row of the file
ColsRun(order) ==
  /\ pc = "cols"
  /\ run <= args.Runs
  /\ run' = run + 1
  /\ wk' = [wk EXCEPT ![0].runs =
              Append(@, CsvHeaders(wk[0].Config, wk[0].headers, wk[0].auditType,
                                   wk[0].event, order))]
  /\ UNCHANGED << args, faults, options, disk, pc, files, config, i, done, threadbuffer,
                  threadMessages, filesize_total, counts, tqdm, dbg, pending, lastsave >>

NextCols == \E order \in MapOrders(wk[0].headers) : ColsRun(order)

SpecCols == InitCols /\ [][NextCols]_vars

(* ------------------ one file, from listing to statistics -------------- *)
(* A run with one thread over an input directory that holds one file: the  *)
(* file's name may carry one of the phrases a result message is searched   *)
(* for, its content is one of the kinds the probe tells apart.             *)

\* file names whose payload part is plain, or reads like part of a result
OutcomeNames ==
  { <<"h", "-", "a", "-", "p", "-", "x", ".xml">>,
    <<"h", "-", "a", "-", "parsed successfully", "-", "x", ".xml">>,
    <<"h", "-", "a", "-", "Could not parse file", "-", "x", ".xml">>,
    <<"h", "-", "a", "-", "is empty", "-", "x", ".xml">>,
    <<"h", "-", "a", "-", "File was split", "-", "x", ".xml">> }

OutcomeContents == { "good", "issues", "empty", "bad" }

InitOutcome ==
  /\ args = [options |-> Options(1, 0, FALSE, FALSE), Runs |-> 1, Force |-> << FALSE >>]
  /\ faults = MaxFaults
  /\ options = args.options
  /\ indir \in { << File(n, 60000000, c) >> : n \in OutcomeNames, c \in OutcomeContents }
  /\ xmlsplit = {}
  /\ outfiles = {}
  /\ cachefile = [exists |-> FALSE, xml |-> << >>]
  /\ run = 0
  /\ pc = "idle"
  /\ Stopped

NextOutcome ==
  \/ StartRun(TRUE)
  \/ CoordLaunch(FALSE)
  \/ \E nd \in ThreadChoices : WorkerRun(0, nd)
  \/ CoordRecv(0, FALSE)
  \/ \E saveok \in BOOLEAN : CoordProgress(saveok)

SpecOutcome == InitOutcome /\ [][NextOutcome]_vars

(* ----------------------- parse_time, byte by byte --------------------- *)
(* The value is a sequence of one-character strings; Go's timevalue[k] is  *)
(* timevalue[k + 1] here, and timevalue[a:b] is SubSeq(timevalue, a + 1, b).*)

\* parse_time(timevalue string) string
parse_time_bytes(timevalue) ==
  LET length == Len(timevalue)
      marks == /\ timevalue[5] = "-" /\ timevalue[8] = "-"
               /\ timevalue[14] = ":" /\ timevalue[17] = ":"
  IN IF (length = 23 \/ length = 24) /\ marks /\ timevalue[20] = "."
     THEN SubSeq(timevalue, 1, 10) \o <<" ">> \o SubSeq(timevalue, 12, 23)
     ELSE IF (length = 19 \/ length = 20) /\ marks
     THEN SubSeq(timevalue, 1, 10) \o <<" ">> \o SubSeq(timevalue, 12, 19)
     ELSE timevalue

\* the lengths of the values tried
TimeLengths == 18..25

\* what a value may hold at each position: a digit everywhere, and at the
\* positions of the separators of a timestamp also the separator
TimeChars(k) ==
  CASE k \in {5, 8} -> {"1", "-"}
    [] k = 11 -> {"1", "T", " "}
    [] k \in {14, 17} -> {"1", ":"}
    [] k = 20 -> {"1", ".", "Z"}
    [] k = 24 -> {"1", "Z"}
    [] OTHER -> {"1"}

RECURSIVE TimeStrings(_)
\* the values of length n
TimeStrings(n) ==
  IF n = 0 THEN { << >> }
  ELSE { Append(s, c) : s \in TimeStrings(n - 1), c \in TimeChars(n) }

TimeInputs == UNION { TimeStrings(n) : n \in TimeLengths }

InitTime ==
  /\ args = [options |-> Options(1, 0, FALSE, FALSE), Runs |-> 1, Force |-> << FALSE >>]
  /\ faults = 0
  /\ options = args.options
  /\ indir = << >>
  /\ xmlsplit = {}
  /\ outfiles = {}
  /\ cachefile = [exists |-> TRUE, xml |-> << >>]
  /\ run = 1
  /\ pc = "time"
  /\ files = << >>
  /\ config = << >>
  /\ i = 0
  /\ done = NoReturn
  /\ wk \in { [w \in {0} |-> [st |-> "running", timevalue |-> s, result |-> << >>]] :
              s \in TimeInputs }
  /\ threadbuffer = {0}
  /\ threadMessages = << >>
  /\ filesize_total = 0
  /\ counts = NoCounts
  /\ tqdm = 1
  /\ dbg = [pc |-> "off", stats |-> "nil"]
  /\ pending = 0
  /\ lastsave = "none"

\* value = parse_time(value), as add_value_to_row_normal calls it
TimeCall ==
  /\ pc = "time"
  /\ wk[0].st = "running"
  /\ wk' = [wk EXCEPT ![0].st = "done", ![0].result = parse_time_bytes(wk[0].timevalue)]
  /\ UNCHANGED << args, faults, options, disk, run, pc, files, config, i, done, threadbuffer,
                  threadMessages, filesize_total, counts, tqdm, dbg, pending, lastsave >>

NextTime == TimeCall

SpecTime == InitTime /\ [][NextTime]_vars

(* -------------------------- eventbuffer parser ------------------------ *)
(* The state of the line loop of GoAuditParser_Thread (AUDIT_EVENTBUFFER): *)
(*   state, rowCount, eventTypes (names; id = position - 1), allHeaders    *)
(*   and tables (one entry per event type), row, eventType, eventTypeID,   *)
(*   fieldType, the attributes of the open event, and out and msg as in    *)
(*   the normal-style loop.  An <eventItem ..> line is a line of kind      *)
(*   "itemopen" with tag "eventItem"; val holds the digits of its uid and  *)
(*   sequence_num, attr says which of uid, sequence_num, hits it has.      *)

STATE_EXPECTING_EVENTOPEN_OR_END == 1
STATE_EXPECTING_TYPEOPEN == 2
STATE_EXPECTING_FIELDOPEN_OR_TYPECLOSE == 3
STATE_EXPECTING_FIELDCLOSED == 4
STATE_EXPECTING_EVENTCLOSE == 5
STATE_FINISHED_EVENT == 6

EventInit ==
  [state |-> STATE_HEADER, rowCount |-> 0, eventTypes |-> << >>, allHeaders |-> << >>,
   tables |-> << >>, row |-> << >>, eventType |-> << >>, eventTypeID |-> -1,
   fieldType |-> << >>, attr_uid |-> << >>, attr_sequence_num |-> << >>,
   attr_ext1 |-> << >>, attr_ext2 |-> << >>, out |-> "", msg |-> << >>]

\* UpperCamelCase(s): the first byte in upper case, on the names of the model
UpperCamelCase(s) ==
  CASE s = "hostname" -> "Hostname"
    [] s = "timestamp" -> "Timestamp"
    [] s = "fooEvent" -> "FooEvent"
    [] s = "barEvent" -> "BarEvent"
    [] s = "eventItem" -> "EventItem"
    [] s = "itemList" -> "ItemList"
    [] s = "path" -> "Path"
    [] OTHER -> s

\* ExtraFunc7(options, attr)
ExtraFunc7(attr) == "Extra"

\* the hits attribute of an event: arrays of ids, "[a1, a2] [b1]"
EventHits == << <<"a1", "a2">>, <<"b1">> >>

Quoted(id) == <<"\"", id, "\"">>

\* attr_ext1: the first id of every array
HitsExt1(hits) ==
  <<"[">> \o Join([k \in 1..Len(hits) |-> Quoted(hits[k][1])], ",") \o <<"]">>

\* attr_ext2: every array
HitsExt2(hits) ==
  <<"[">> \o Join([k \in 1..Len(hits) |->
                     <<"[">> \o Join([j \in 1..Len(hits[k]) |-> Quoted(hits[k][j])], ",")
                       \o <<"]">>], ",") \o <<"]">>

EventField_plain(name, eventType) ==
  LET field == UpperCamelCase(name)
  IN IF field = "Timestamp" THEN <<"EventBufferTime_">> \o eventType ELSE << field >>

\* the column a field of an event is stored under
EventField(name, eventType) ==
  LET field == UpperCamelCase(name)
  IN IF field = "Timestamp" THEN <<"EventBufferTime_">> \o eventType
     ELSE IF field = "Hostname" THEN <<"DNSHostname">>
     ELSE << field >>

\* es after row = add_value_to_row_eventbuffer(header, value, allHeaders[eventTypeID], row, ..)
EventAdd(es, header, value, existingValueGetsNewLine, ctx) ==
  LET r == add_value_to_row_eventbuffer(header, value, es.allHeaders[es.eventTypeID + 1],
                                        es.row, ctx.options, existingValueGetsNewLine)
  IN [es EXCEPT !.allHeaders[es.eventTypeID + 1] = r.headers, !.row = r.row]

\* state == STATE_EXPECTING_EVENTOPEN_OR_END
EventStepOpen(es0, line, ctx) ==
  LET es == [es0 EXCEPT !.tables = IF Len(es0.row) # 0
                                   THEN [@ EXCEPT ![es0.eventTypeID + 1] = Append(@, es0.row)]
                                   ELSE @,
                        !.row = << >>]
      hits == "hits" \in line.attr
  IN IF line.k = "listclose" THEN [es EXCEPT !.state = STATE_FINISHED_EVENT, !.out = "break"]
     ELSE IF ~(line.k = "itemopen" /\ line.tag = "eventItem")
       THEN Ret(es, MsgCouldNotParse(ctx.xmlFileName,
                      "Expected '^[ \t]*<eventItem.*>' or '</itemList>' on line ",
                      LineText(line)))
     ELSE [es EXCEPT !.attr_uid = IF "uid" \in line.attr THEN line.val ELSE << >>,
                     !.attr_sequence_num =
                        IF "sequence_num" \in line.attr THEN line.val ELSE << >>,
                     !.attr_ext1 = IF hits THEN HitsExt1(EventHits) ELSE << >>,
                     !.attr_ext2 = IF hits THEN HitsExt2(EventHits) ELSE << >>,
                     !.state = STATE_EXPECTING_TYPEOPEN]

\* state == STATE_EXPECTING_TYPEOPEN
EventStepType(es, line, ctx) ==
  IF line.k # "open"
  THEN Ret(es, MsgCouldNotParse(ctx.xmlFileName,
                 "Expected Event Type '^[ \t]*<([A-Za-z0-9]+)>' on line ", LineText(line)))
  ELSE LET eventType == << UpperCamelCase(line.tag) >>
           exists == ColID(es.eventTypes, eventType) # -1
           id == IF exists THEN ColID(es.eventTypes, eventType) ELSE Len(es.eventTypes)
           es1 == [es EXCEPT !.eventType = eventType, !.eventTypeID = id,
                             !.eventTypes = IF exists THEN @ ELSE Append(@, eventType),
                             !.tables = IF exists THEN @ ELSE Append(@, << >>),
                             !.allHeaders = IF exists THEN @ ELSE Append(@, NewEventHeaders)]
           es2 == IF es.attr_uid # << >>
                  THEN EventAdd(es1, <<"UID">>, es.attr_uid, TRUE, ctx) ELSE es1
           es3 == IF es.attr_sequence_num # << >>
                  THEN EventAdd(es2, <<"Sequence Number">>, es.attr_sequence_num, TRUE, ctx)
                  ELSE es2
           es4 == IF es.attr_ext1 # << >>
                  THEN EventAdd(es3, << ExtraFunc7(1) >>, es.attr_ext1, TRUE, ctx) ELSE es3
           es5 == IF es.attr_ext2 # << >>
                  THEN EventAdd(es4, << ExtraFunc7(2) >>, es.attr_ext2, TRUE, ctx) ELSE es4
       IN [es5 EXCEPT !.state = STATE_EXPECTING_FIELDOPEN_OR_TYPECLOSE]

\* state == STATE_EXPECTING_FIELDOPEN_OR_TYPECLOSE
EventStepField(es, line, ctx) ==
  IF line.k \in {"close", "listclose"}
  THEN IF es.eventType # << UpperCamelCase(CloseName(line)) >>
       THEN Ret(es, MsgCouldNotParse(ctx.xmlFileName, "Event Type Close did not match '",
                                     es.eventType \o <<"' on line ">> \o LineText(line)))
       ELSE [es EXCEPT !.state = STATE_EXPECTING_EVENTCLOSE]
  ELSE IF line.k = "single"
  THEN EventAdd(es, EventField(line.tag, es.eventType), line.val, TRUE, ctx)
  ELSE IF line.k \in {"open", "openval"}
  THEN [EventAdd(es, EventField(line.tag, es.eventType), line.val, TRUE, ctx)
          EXCEPT !.fieldType = EventField(line.tag, es.eventType),
                 !.state = STATE_EXPECTING_FIELDCLOSED]
  ELSE IF line.k = "selfclose"
  THEN EventAdd(es, EventField(line.tag, es.eventType), << >>, TRUE, ctx)
  ELSE Ret(es, MsgCouldNotParse(ctx.xmlFileName,
                 "Expected Record Close, SingleLine Field, or MultiLine Field Open on line ",
                 LineText(line)))

\* regFieldMLClose (.*)</([A-Za-z0-9]+)>$ : << value, name >>, or << >>
EventMLClose(line) ==
  CASE line.k \in {"close", "valclose"} -> << line.val, line.tag >>
    [] line.k = "single" -> << <<"<", line.tag, ">">> \o line.val, line.ctag >>
    [] line.k = "listclose" -> << << >>, "itemList" >>
    [] OTHER -> << >>

\* state == STATE_EXPECTING_FIELDCLOSED
EventStepFieldClosed(es, line, ctx) ==
  LET m == EventMLClose(line)
  IN IF Len(m) > 1
     THEN IF es.fieldType # EventField(m[2], es.eventType)
          THEN Ret(es, MsgCouldNotParse(ctx.xmlFileName,
                         "MultiLine Field Type Close did not match '",
                         es.fieldType \o <<"' on line ">> \o LineText(line)))
          ELSE [EventAdd(es, EventField(m[2], es.eventType), m[1], FALSE, ctx)
                  EXCEPT !.state = STATE_EXPECTING_FIELDOPEN_OR_TYPECLOSE]
     ELSE EventAdd(es, es.fieldType, LineText(line), FALSE, ctx)

\* state == STATE_EXPECTING_EVENTCLOSE
EventStepClose(es, line, ctx) ==
  IF line.k = "close" /\ line.tag = "eventItem"
  THEN [es EXCEPT !.state = STATE_EXPECTING_EVENTOPEN_OR_END]
  ELSE Ret(es, MsgCouldNotParse(ctx.xmlFileName,
                 "Expected Event Close '^[ \t]*</eventItem>$' on line ", LineText(line)))

\* one pass of the loop over the lines of an eventbuffer file
EventStep(es0, line, ctx) ==
  LET es == [es0 EXCEPT !.rowCount = @ + 1]
      n == ctx.xmlFileName
  IN IF es.state = STATE_HEADER /\ es.rowCount = 1
     THEN IF line.k # "xml"
          THEN Ret(es, MsgCouldNotParse(n, "Unexpected 1st Line: ", TrimSpace(LineText(line))))
          ELSE es
     ELSE IF es.state = STATE_HEADER /\ es.rowCount = 2
     THEN IF line.k # "itemlist"
          THEN Ret(es, MsgCouldNotParse(n, "Unexpected 2nd Line: ", TrimSpace(LineText(line))))
          ELSE [es EXCEPT !.state = STATE_EXPECTING_EVENTOPEN_OR_END]
     ELSE IF es.state = STATE_EXPECTING_EVENTOPEN_OR_END THEN EventStepOpen(es, line, ctx)
     ELSE IF es.state = STATE_EXPECTING_TYPEOPEN THEN EventStepType(es, line, ctx)
     ELSE IF es.state = STATE_EXPECTING_FIELDOPEN_OR_TYPECLOSE THEN EventStepField(es, line, ctx)
     ELSE IF es.state = STATE_EXPECTING_FIELDCLOSED THEN EventStepFieldClosed(es, line, ctx)
     ELSE IF es.state = STATE_EXPECTING_EVENTCLOSE THEN EventStepClose(es, line, ctx)
     ELSE Ret(es, MsgInternal(n, LineText(line)))

(* ------------------------- rows become CSV rows ----------------------- *)

\* the names of a header table of an event type, in the order of their ids
HeadersById(headers) ==
  [k \in 1..Cardinality(DOMAIN headers) |-> CHOOSE h \in DOMAIN headers : headers[h] = k - 1]

\* one csvRow of the event dialects: "Create rows"
CsvRowEvent(csvHeaders, headers, row, eventType, hostname, agentid) ==
  [k \in 1..Len(csvHeaders) |->
     IF csvHeaders[k] = <<"EventBufferType">> THEN eventType
     ELSE IF csvHeaders[k] = <<"Hostname">> THEN hostname
     ELSE IF csvHeaders[k] = <<"AgentID">> THEN agentid
     ELSE IF csvHeaders[k] \notin DOMAIN headers THEN << >>
     ELSE IF RowIndex(row, headers[csvHeaders[k]]) = 0 THEN << >>
     ELSE row[RowIndex(row, headers[csvHeaders[k]])].value]

\* one csvRow of the normal dialect: "Create rows"
CsvRowNormal(csvHeaders, headers, row, hostname, agentid) ==
  [k \in 1..Len(csvHeaders) |->
     IF csvHeaders[k] = <<"Hostname">> THEN hostname
     ELSE IF csvHeaders[k] = <<"AgentID">> THEN agentid
     ELSE IF ColID(headers, csvHeaders[k]) = -1 THEN << >>
     ELSE IF ColID(headers, csvHeaders[k]) \in DOMAIN row
     THEN row[ColID(headers, csvHeaders[k])]
     ELSE << >>]

\* the elements of s that are not in the set skip, in their order
RECURSIVE Without(_, _)
Without(s, skip) ==
  IF Len(s) = 0 THEN << >>
  ELSE IF s[1] \in skip THEN Without(Tail(s), skip)
  ELSE << s[1] >> \o Without(Tail(s), skip)

\* csvHeaders of a normal-style table: Hostname and AgentID, then the names
\* of the header table (their order is the subject of ColsRun)
NormalCsvHeaders(headers) ==
  << <<"Hostname">>, <<"AgentID">> >> \o Without(headers, { <<"Hostname">>, <<"AgentID">> })

\* the table of a normal-style file as it is written
NormalTable(auditType, ps, parts) ==
  [item |-> auditType,
   csvHeaders |-> NormalCsvHeaders(ps.headers),
   csvRows |-> [k \in 1..Len(ps.rows) |->
                  CsvRowNormal(NormalCsvHeaders(ps.headers), ps.headers, ps.rows[k],
                               parts.hostname, parts.agentid)]]

\* the table of one event type as it is written
EventTable(t, es, parts) ==
  [item |-> <<"EventItem_">> \o es.eventTypes[t],
   csvHeaders |-> HeadersById(es.allHeaders[t]),
   csvRows |-> [k \in 1..Len(es.tables[t]) |->
                  CsvRowEvent(HeadersById(es.allHeaders[t]), es.allHeaders[t], es.tables[t][k],
                              es.eventTypes[t], parts.hostname, parts.agentid)]]

\* GoAuditParser_Thread (AUDIT_EVENTBUFFER) once the line loop has ended in es
ThreadEventEnd(xmlFileName, es) ==
  IF es.out = "ret" THEN Sent(es.msg, << >>, << >>)
  ELSE IF Len(es.tables) = 0 THEN Sent(MsgEmpty(xmlFileName), << >>, << >>)
  ELSE Sent(MsgSuccess(xmlFileName), << >>, << >>)

(* ------------------ one file, its records and its rows ---------------- *)
(* A run with one file, normal-style or eventbuffer, read one line at a    *)
(* time and then written.  Every value of a record carries the number of   *)
(* the record; wk[0].fed lists, in the order of the file, the records that *)
(* put a value in a row, with the table the row belongs to; wk[0].named    *)
(* holds the records that have a field called hostname.                    *)

\* the largest number of records of a file
MaxRecords == 3

\* the largest number of lines between the open line of an event and the open
\* line of the next; a normal-style record has one line less
MaxRecordLines == 4

\* the value that stands for the data of record n
RecTag(n) == << ToString(n) >>

EventList == L("itemlist", "eventbuffer", << >>, "", {})

\* the lines a normal-style file may go on with after n records
NormalLines(n) ==
  { XmlLine, ItemList,
    L("itemopen", "X", << >>, "", {}),
    L("single", "F", RecTag(n), "F", {}),
    L("single", "Hostname", RecTag(n), "Hostname", {}),
    L("open", "A", << >>, "", {}),
    L("close", "A", <<" ">>, "", {}),
    L("close", "X", <<" ">>, "", {}),
    L("listclose", "", << >>, "", {}) }

\* the lines an eventbuffer file may go on with after n events
EventLines(n) ==
  { XmlLine, EventList,
    L("itemopen", "eventItem", RecTag(n + 1), "", {}),
    L("itemopen", "eventItem", RecTag(n + 1), "", {"uid", "hits"}),
    L("open", "fooEvent", << >>, "", {}),
    L("open", "barEvent", << >>, "", {}),
    L("single", "hostname", RecTag(n), "hostname", {}),
    L("close", "fooEvent", <<" ">>, "", {}),
    L("close", "barEvent", <<" ">>, "", {}),
    L("close", "eventItem", <<" ">>, "", {}),
    L("listclose", "", << >>, "", {}) }

InitRecords ==
  /\ args \in { [options |-> [Options(1, 0, FALSE, FALSE) EXCEPT !.ParseAltHostname = h],
                 Runs |-> 1, Force |-> << FALSE >>] : h \in { << >>, <<"alt">> } }
  /\ faults = 0
  /\ options = args.options
  /\ indir = << File(<<"h", "-", "a", "-", "p", "-", "x", ".xml">>, 60000000, "lines") >>
  /\ xmlsplit = {}
  /\ outfiles = {}
  /\ cachefile = [exists |-> TRUE, xml |-> << >>]
  /\ run = 1
  /\ pc = "drecv"
  /\ files = indir
  /\ config = GetXMLParseConfig_Config(indir[1], << >>)
  /\ i = 0
  /\ done = NoReturn
  /\ wk \in { [w \in {0} |-> [st |-> "running", style |-> s,
                              fileconfig |-> GetXMLParseConfig_File(indir[1], << >>),
                              lines |-> << >>, nrec |-> 0, nlines |-> 0,
                              fed |-> << >>, named |-> {},
                              ps |-> IF s = AUDIT_NORMAL THEN ParserInit ELSE EventInit,
                              csv |-> << >>, res |-> << >>]] :
              s \in {AUDIT_NORMAL, AUDIT_EVENTBUFFER} }
  /\ threadbuffer = {0}
  /\ threadMessages = << >>
  /\ filesize_total = 0
  /\ counts = NoCounts
  /\ tqdm = 1
  /\ dbg = [pc |-> "off", stats |-> "nil"]
  /\ pending = 0
  /\ lastsave = "none"

\* the table the open row belongs to: 0 in a normal-style file
OpenTable(style, ps) == IF style = AUDIT_NORMAL THEN 0 ELSE ps.eventTypeID

\* the loop takes the line as the open line of a record: it leaves the state
\* that expects one (state 1 in both dialects) for the state inside a record
RecordOpens(ps0, ps1) ==
  ps0.state = STATE_EXPECTING_EVENTOPEN_OR_END /\ ps1.state = STATE_EXPECTING_TYPEOPEN

\* the bookkeeping of a line: which record it belongs to and what it fed
RecordsRead(line, ps1) ==
  LET w == wk[0]
      n == IF RecordOpens(w.ps, ps1) THEN w.nrec + 1 ELSE w.nrec
      feeds == DOMAIN ps1.row # {} /\ ps1.row # w.ps.row
  IN wk' = [wk EXCEPT ![0].ps = ps1,
                      ![0].lines = IF Len(@) < 3 THEN Append(@, line) ELSE @,
                      ![0].nrec = n,
                      ![0].nlines = IF RecordOpens(w.ps, ps1) THEN 0 ELSE @ + 1,
                      ![0].fed = IF feeds /\ (Len(@) = 0 \/ @[Len(@)].rec # n)
                                 THEN Append(@, [rec |-> n, table |-> OpenTable(w.style, ps1)])
                                 ELSE @,
                      ![0].named = IF line.k = "single" /\ line.tag \in {"hostname", "Hostname"}
                                   THEN @ \cup {n} ELSE @]

\* the lines the bounds let through: at most MaxRecords records, and a bounded
\* number of lines inside each
RecordsBound(line, ps1) ==
  /\ line.k = "itemopen" => wk[0].ps.state = STATE_EXPECTING_EVENTOPEN_OR_END
  /\ RecordOpens(wk[0].ps, ps1) => wk[0].nrec < MaxRecords
  /\ ~RecordOpens(wk[0].ps, ps1) /\ line.k # "listclose" /\ Len(wk[0].lines) >= 2 =>
       wk[0].nlines < (IF wk[0].style = AUDIT_NORMAL THEN MaxRecordLines - 1
                       ELSE MaxRecordLines)

\* the line loop of a normal-style file reads one more line
RecordLine(line) ==
  /\ pc = "drecv"
  /\ wk[0].st = "running"
  /\ wk[0].style = AUDIT_NORMAL
  /\ wk[0].ps.out = ""
  /\ RecordsBound(line, NormalStep(wk[0].ps, line, ParseCtx(Append(wk[0].lines, line))))
  /\ ProbePasses(wk[0].lines, line)
  /\ RecordsRead(line, NormalStep(wk[0].ps, line, ParseCtx(Append(wk[0].lines, line))))
  /\ UNCHANGED << args, faults, options, disk, run, pc, files, config, i, done, threadbuffer,
                  threadMessages, filesize_total, counts, tqdm, dbg, pending, lastsave >>

\* the line loop of an eventbuffer file reads one more line
EventLine(line) ==
  /\ pc = "drecv"
  /\ wk[0].st = "running"
  /\ wk[0].style = AUDIT_EVENTBUFFER
  /\ wk[0].ps.out = ""
  /\ RecordsBound(line, EventStep(wk[0].ps, line, ParseCtx(wk[0].lines)))
  /\ Len(wk[0].lines) = 0 => line = XmlLine
  /\ Len(wk[0].lines) = 1 => line = EventList
  /\ RecordsRead(line, EventStep(wk[0].ps, line, ParseCtx(wk[0].lines)))
  /\ UNCHANGED << args, faults, options, disk, run, pc, files, config, i, done, threadbuffer,
                  threadMessages, filesize_total, counts, tqdm, dbg, pending, lastsave >>

\* the file has no more lines
RecordsEof ==
  /\ pc = "drecv"
  /\ wk[0].st = "running"
  /\ wk[0].ps.out = ""
  /\ Len(wk[0].lines) >= 3
  /\ wk' = [wk EXCEPT ![0].st = "eof",
                      ![0].ps = IF wk[0].style = AUDIT_NORMAL
                                THEN RunLines(@, LoopLines(wk[0].fileconfig, << >>),
                                              ParseCtx(wk[0].lines))
                                ELSE @]
  /\ UNCHANGED << args, faults, options, disk, run, pc, files, config, i, done, threadbuffer,
                  threadMessages, filesize_total, counts, tqdm, dbg, pending, lastsave >>

\* the tables the worker writes when it reports res
RecordsTables(w, res) ==
  LET n == w.fileconfig.InputFileName
      parts == FileNameParts(n, options)
  IN IF res.msg # MsgSuccess(n) THEN << >>
     ELSE IF w.style = AUDIT_NORMAL
     THEN << NormalTable(ParseAuditType(w.lines), w.ps, parts) >>
     ELSE [t \in 1..Len(w.ps.tables) |-> EventTable(t, w.ps, parts)]

\* the rest of the worker with result res, up to its send on c
RecordsSend(res) ==
  IF res.out = "panic"
  THEN pc' = "panicked" /\ wk' = [wk EXCEPT ![0].st = "panicked"] /\ outfiles' = outfiles
  ELSE /\ pc' = pc
       /\ wk' = [wk EXCEPT ![0].st = "sending", ![0].res = res,
                           ![0].csv = RecordsTables(wk[0], res)]
       /\ outfiles' = outfiles \cup
            { CsvFilePath(wk[0].fileconfig.InputFileName, RecordsTables(wk[0], res)[t].item,
                          options) : t \in 1..Len(RecordsTables(wk[0], res)) }

\* the loop is over: the rows are made into CSV rows and written
RecordsEnd ==
  /\ pc = "drecv"
  /\ wk[0].st = "eof" \/ (wk[0].st = "running" /\ wk[0].ps.out # "")
  /\ RecordsSend(IF wk[0].style = AUDIT_NORMAL
                 THEN ThreadNormalEnd(wk[0].fileconfig, ParseAuditType(wk[0].lines), options,
                                      "none", wk[0].ps)
                 ELSE ThreadEventEnd(wk[0].fileconfig.InputFileName, wk[0].ps))
  /\ UNCHANGED << args, faults, options, indir, xmlsplit, cachefile, run, files, config, i,
                  done, threadbuffer, threadMessages, filesize_total, counts, tqdm, dbg,
                  pending, lastsave >>

NextRecords ==
  \/ \E line \in NormalLines(wk[0].nrec) : RecordLine(line)
  \/ \E line \in EventLines(wk[0].nrec) : EventLine(line)
  \/ RecordsEof
  \/ RecordsEnd

SpecRecords == InitRecords /\ [][NextRecords]_vars

(* ------------- one multi-line field read by the three parsers ---------- *)
(* The same content (an opening line with or without text, intermediate   *)
(* lines, a closing line) is read by the line loop of the normal dialect   *)
(* inside a record, by the loop of the eventbuffer dialect inside an event *)
(* type, and by the loop of the stateagentinspector dialect after the      *)
(* <name> of a detail, whose value states are the only part of that loop   *)
(* modelled.                                                               *)

STATE_EXPECTING_DETAILVALUE == 7
STATE_EXPECTING_DETAILVALUECLOSE == 8
STATE_EXPECTING_DETAILCLOSE == 9

\* the largest number of intermediate lines
MaxMid == 3

\* regValueMLClose ^(.*)</value>$ : << value >>, or << >>
SaiValueMLClose(line) ==
  CASE line.k \in {"close", "valclose"} /\ line.tag = "value" -> << line.val >>
    [] line.k = "single" /\ line.ctag = "value" -> << <<"<", line.tag, ">">> \o line.val >>
    [] OTHER -> << >>

\* sv after row = add_value_to_row_eventbuffer(field_name, value, allHeaders[eventTypeID], row, ..)
SaiAdd(sv, value, existingValueGetsNewLine, ctx) ==
  LET r == add_value_to_row_eventbuffer(sv.field_name, value, sv.headers, sv.row,
                                        ctx.options, existingValueGetsNewLine)
  IN [sv EXCEPT !.headers = r.headers, !.row = r.row]

\* state == STATE_EXPECTING_DETAILVALUE
SaiStepValue(sv, line, ctx) ==
  IF line.k = "single" /\ line.tag = "value" /\ line.ctag = "value"
  THEN [SaiAdd(sv, line.val, TRUE, ctx)
          EXCEPT !.field_name = << >>, !.state = STATE_EXPECTING_DETAILCLOSE]
  ELSE IF line.k = "selfclose" /\ line.tag = "value"
  THEN [SaiAdd(sv, << >>, TRUE, ctx)
          EXCEPT !.field_name = << >>, !.state = STATE_EXPECTING_DETAILCLOSE]
  ELSE IF ~(line.k \in {"open", "openval"} /\ line.tag = "value")
  THEN Ret(sv, MsgCouldNotParse(ctx.xmlFileName,
                 "Expected Detail Value SingleLine or MultiLine Open on line ", LineText(line)))
  ELSE [SaiAdd(sv, line.val, TRUE, ctx) EXCEPT !.state = STATE_EXPECTING_DETAILVALUECLOSE]

\* state == STATE_EXPECTING_DETAILVALUECLOSE
SaiStepValueClose(sv, line, ctx) ==
  LET m == SaiValueMLClose(line)
  IN IF Len(m) = 0
     THEN SaiAdd(sv, LineText(line), FALSE, ctx)
     ELSE [SaiAdd(sv, m[1], FALSE, ctx) EXCEPT !.state = STATE_EXPECTING_DETAILCLOSE]

\* the two value states of the stateagentinspector loop
SaiStep(sv, line, ctx) ==
  IF sv.state = STATE_EXPECTING_DETAILVALUE THEN SaiStepValue(sv, line, ctx)
  ELSE IF sv.state = STATE_EXPECTING_DETAILVALUECLOSE THEN SaiStepValueClose(sv, line, ctx)
  ELSE sv

RECURSIVE EventRun(_, _, _)
\* the eventbuffer loop over lines
EventRun(es, lines, ctx) ==
  IF es.out # "" \/ Len(lines) = 0 THEN es
  ELSE EventRun(EventStep(es, Head(lines), ctx), Tail(lines), ctx)

MultiFile == File(<<"h", "-", "a", "-", "p", "-", "x", ".xml">>, 60000000, "lines")

MultiCtx(opts) == LoopCtx(GetXMLParseConfig_File(MultiFile, << >>), <<"X">>, opts, {}, "none")

\* the texts of the content lines
MultiTexts == { <<"v">>, <<"w">>, <<"2020-10-05T18:01:05Z">> }

\* the text before the closing tag: none, or one
MultiLast == { << >>, <<"w">> }

InitMulti ==
  /\ args \in { [options |-> [Options(1, 0, FALSE, FALSE) EXCEPT !.ReplaceNewLineFeeds = r],
                 Runs |-> 1, Force |-> << FALSE >>] : r \in BOOLEAN }
  /\ faults = 0
  /\ options = args.options
  /\ indir = << MultiFile >>
  /\ xmlsplit = {}
  /\ outfiles = {}
  /\ cachefile = [exists |-> TRUE, xml |-> << >>]
  /\ run = 1
  /\ pc = "multi"
  /\ files = indir
  /\ config = GetXMLParseConfig_Config(indir[1], << >>)
  /\ i = 0
  /\ done = NoReturn
  /\ wk = [w \in {0} |->
             [st |-> "open", nmid |-> 0, content |-> << >>,
              ps |-> RunLines(ParserInit,
                              << XmlLine, ItemList, L("itemopen", "X", << >>, "", {}) >>,
                              MultiCtx(args.options)),
              es |-> EventRun(EventInit,
                              << XmlLine, L("itemlist", "", << >>, "", {}),
                                 L("itemopen", "eventItem", <<"1">>, "", {}),
                                 L("open", "fooEvent", << >>, "", {}) >>,
                              MultiCtx(args.options)),
              sv |-> [state |-> STATE_EXPECTING_DETAILVALUE, field_name |-> <<"A">>,
                      headers |-> NewEventHeaders, row |-> << >>, out |-> "", msg |-> << >>]]]
  /\ threadbuffer = {0}
  /\ threadMessages = << >>
  /\ filesize_total = 0
  /\ counts = NoCounts
  /\ tqdm = 1
  /\ dbg = [pc |-> "off", stats |-> "nil"]
  /\ pending = 0
  /\ lastsave = "none"

\* the three loops read the line with content text of kind k: as a line of
\* field A in the first two, as a line of <value> in the third
MultiRead(k, text, st) ==
  /\ pc = "multi"
  /\ wk' = [wk EXCEPT ![0].st = st,
                      ![0].nmid = IF k = "text" THEN @ + 1 ELSE @,
                      ![0].content = Append(@, text),
                      ![0].ps = NormalStep(@, L(k, IF k = "text" THEN "" ELSE "A", text, "", {}),
                                           MultiCtx(options)),
                      ![0].es = EventStep(@, L(k, IF k = "text" THEN "" ELSE "A", text, "", {}),
                                          MultiCtx(options)),
                      ![0].sv = SaiStep(@, L(k, IF k = "text" THEN "" ELSE "value", text, "", {}),
                                        MultiCtx(options))]
  /\ UNCHANGED << args, faults, options, disk, run, pc, files, config, i, done, threadbuffer,
                  threadMessages, filesize_total, counts, tqdm, dbg, pending, lastsave >>

\* the opening line, with text after the tag
MultiOpen(text) == wk[0].st = "open" /\ MultiRead("openval", text, "mid")

\* the opening line, with nothing after the tag
MultiOpenAlone == wk[0].st = "open" /\ MultiRead("open", << >>, "mid")

\* an intermediate line
MultiMid(text) == wk[0].st = "mid" /\ wk[0].nmid < MaxMid /\ MultiRead("text", text, "mid")

\* the closing line
MultiClose(text) == wk[0].st = "mid" /\ MultiRead("valclose", text, "closed")

NextMulti ==
  \/ \E text \in MultiTexts : MultiOpen(text)
  \/ MultiOpenAlone
  \/ \E text \in MultiTexts : MultiMid(text)
  \/ \E text \in MultiLast : MultiClose(text)

SpecMulti == InitMulti /\ [][NextMulti]_vars

(* ------------------- an input file changes between runs ---------------- *)
(* Two runs without -f over the same input directory; between them a file  *)
(* is replaced by one of the same name with another size and content.      *)

\* the sizes of the files that change
ChangeSizes == { 60000000, 70000000 }

\* their contents
ChangeContents == { "good", "empty", "issues", "subtext" }

\* their names
ChangeNames ==
  << <<"h", "-", "a", "-", "p1", "-", "x", ".xml">>,
     <<"h", "-", "a", "-", "p2", "-", "x", ".xml">> >>

InitChange ==
  /\ args = [options |-> Options(1, 0, FALSE, FALSE), Runs |-> MaxRuns,
             Force |-> [r \in 1..MaxRuns |-> FALSE]]
  /\ faults = 0
  /\ options = args.options
  /\ indir \in { [k \in 1..n |-> File(ChangeNames[k], 60000000, c[k])] :
                 n \in 1..2, c \in [1..2 -> ChangeContents] }
  /\ xmlsplit = {}
  /\ outfiles = {}
  /\ cachefile = [exists |-> FALSE, xml |-> << >>]
  /\ run = 0
  /\ pc = "idle"
  /\ Stopped

\* between two runs the k-th input is replaced by a file of the same name
ChangeFile(k, size, content) ==
  /\ pc = "done"
  /\ run < args.Runs
  /\ k \in 1..Len(indir)
  /\ indir[k].size # size
  /\ indir' = [indir EXCEPT ![k] = File(indir[k].name, size, content)]
  /\ UNCHANGED << args, faults, options, xmlsplit, outfiles, cachefile, run, pc, files,
                  config, i, done, wk, threadbuffer, threadMessages, filesize_total, counts,
                  tqdm, dbg, pending, lastsave >>

NextChange ==
  \/ StartRun(TRUE)
  \/ CoordLaunch(FALSE)
  \/ \E w \in 0..2 : CoordRecv(w, FALSE)
  \/ CoordProgress(TRUE)
  \/ \E w \in 0..2 : WorkerRun(w, "none")
  \/ \E k \in 1..2, size \in ChangeSizes, content \in ChangeContents : ChangeFile(k, size, content)

SpecChange == InitChange /\ [][NextChange]_vars

(* ------------------------ the splitter on its own ---------------------- *)
(* GoAuditXMLSplitter_Start on a list of files at a level of -v.           *)

\* files for the splitter: an issues file, one above the split size, one
\* above it whose name has fewer than four parts, one of the split size, a
\* small one
SplitterUniverse ==
  << File(<<"a", "-", "b", ".xml">>, 400000000, "good"),
     File(<<"h", "-", "a", "-", "p1", "-", "x", ".xml">>, 400000000, "good"),
     File(<<"h", "-", "a", "-", "p2", "-", "issues", ".xml">>, 60000000, "issues"),
     File(<<"h", "-", "a", "-", "p4", "-", "x", ".xml">>, 300000000, "good"),
     File(<<"h", "-", "a", "-", "p6", "-", "x", ".xml">>, 60000000, "empty") >>

InitSplitter ==
  /\ args \in { [options |-> Options(1, v, FALSE, TRUE), Runs |-> 1, Force |-> << FALSE >>] :
                v \in VerboseLevels }
  /\ faults = 0
  /\ options = args.options
  /\ indir \in SubSeqs(SplitterUniverse, MaxFiles)
  /\ xmlsplit = {}
  /\ outfiles = {}
  /\ cachefile = [exists |-> FALSE, xml |-> << >>]
  /\ run = 1
  /\ pc = "splitter"
  /\ files = indir
  /\ config = << >>
  /\ i = 0
  /\ done = NoReturn
  /\ wk = [w \in {0} |-> [st |-> "calling", ticks |-> 0, filesSplit |-> << >>]]
  /\ threadbuffer = {}
  /\ threadMessages = << >>
  /\ filesize_total = 0
  /\ counts = NoCounts
  /\ tqdm = -1
  /\ dbg = [pc |-> "off", stats |-> "nil"]
  /\ pending = 0
  /\ lastsave = "none"

\* the call GoAuditXMLSplitter_Start(options) with sp what it comes to
SplitterCalled(sp) ==
  /\ pc = "splitter"
  /\ wk[0].st = "calling"
  /\ wk' = [wk EXCEPT ![0].st = IF sp.blocked THEN "blocked" ELSE "returned",
                      ![0].ticks = sp.ticks,
                      ![0].filesSplit = sp.filesSplit]
  /\ xmlsplit' = sp.xmlsplit
  /\ UNCHANGED << args, faults, options, indir, outfiles, cachefile, run, pc, files, config,
                  i, done, threadbuffer, threadMessages, filesize_total, counts, tqdm, dbg,
                  pending, lastsave >>

SplitterCall == SplitterCalled(GoAuditXMLSplitter_Start(files, options, xmlsplit))

NextSplitter == SplitterCall

SpecSplitter == InitSplitter /\ [][NextSplitter]_vars

(* ------------------------------- claims ------------------------------- *)

\* workers launched whose result the coordinator has not yet received
InFlight == Cardinality({ w \in DOMAIN wk : wk[w].st \in {"running", "sending"} })

\* Threads as given on the command line, clamped to 1..N
ThreadLimit ==
  LET t == args.options.Threads
  IN IF t < 1 THEN 1 ELSE IF t > Len(files) THEN Len(files) ELSE t

\* C1: at every moment of a run the number of workers launched and not yet
\* received from is at most T, the thread count clamped to 1..N.
C1_WorkersBounded == Len(files) > 0 => InFlight <= ThreadLimit

\* the limit binds: T >= 2 workers are out and a further file waits for a slot
C1_Witness == pc = "recv" /\ ThreadLimit >= 2 /\ InFlight = ThreadLimit /\ i < Len(files)

\* C2: every worker that has left GoAuditParser_Thread has sent its one
\* ThreadReturn_Parse; none leaves without sending.
C2_EveryWorkerSends == \A w \in DOMAIN wk : wk[w].st # "panicked"

\* C3: a run whose workers all send ends only after the coordinator has
\* received the results of all N files.
C3_ReceivesAll ==
  (pc \in {"done", "fatal"} /\ \A w \in DOMAIN wk : wk[w].st # "panicked")
    => Len(threadMessages) = Len(files)

\* the cache entries with the name and size of file f
EntriesOf(f, cfg) ==
  { k \in 1..Len(cfg) : cfg[k].InputFileName = f.name /\ cfg[k].InputFileSize = f.size }

\* C4: after the run the cache holds exactly one entry per file, keyed by name
\* and size, whose status comes from the message of that file's own worker,
\* and as many entries as there are files.
C4_OneEntryPerFile ==
  (pc = "done" /\ Len(files) > 0) =>
    /\ Len(config) = Len(files)
    /\ \A k \in 1..Len(files) :
         /\ Cardinality(EntriesOf(files[k], config)) = 1
         /\ \A e \in EntriesOf(files[k], config) :
              config[e].Status = StatusOfMessage(wk[k - 1].res.msg)

\* a run is over whose results came in another order than the files, with
\* different outcomes
C4_Witness ==
  /\ pc = "done"
  /\ Len(files) >= 2
  /\ threadMessages[1] = wk[1].res.msg
  /\ StatusOfMessage(wk[0].res.msg) # StatusOfMessage(wk[1].res.msg)

\* C5: two workers of distinct input files never build the same temporary
\* path nor the same final path.
C5_PathsDiffer ==
  (pc = "paths" /\ wk[0].st = "paths" /\ wk[1].st = "paths") =>
    /\ wk[0].res.temp # wk[1].res.temp
    /\ wk[0].res.final # wk[1].res.final

\* C6: the map threadbuffer is never written while the Debug goroutine
\* ranges over it.
C6_NoWriteDuringRead == [][threadbuffer' # threadbuffer => ~Racing]_vars

\* C7: while every save succeeds, the results recorded since the last save
\* never add up to more than the 500 MB window once a result is handled.
C7_WindowBounded == faults = MaxFaults => pending <= filesize_max

CachedStatus(f) ==
  IF XMLFileIndex(f, cachefile.xml) = 0 THEN << >>
  ELSE cachefile.xml[XMLFileIndex(f, cachefile.xml)].Status

\* the summary line a cached status belongs to, "keep" for a file to parse
SummaryLine(status) ==
  CASE status \in {<<"parsed">>, <<"split">>} -> "Cached"
    [] status = <<"ignored/issues">> -> "Issues"
    [] status = <<"ignored/empty">> -> "Empty"
    [] OTHER -> "keep"

\* how many of the files in fs are cached with a status of the given line
CountVerdict(fs, line) ==
  Cardinality({ k \in 1..Len(fs) : SummaryLine(CachedStatus(fs[k])) = line })

\* a run starts without -f and without -wo
UnforcedStart == run' = run + 1 /\ ~args.Force[run + 1] /\ ~args.options.WipeOutput

NotJson(fs) ==
  LET keep(f) == ~HasSuffix(f.name, ".json")
  IN SelectSeq(fs, keep)

Inputs == { f \in SeqToSet(indir) \cup xmlsplit : ~HasSuffix(f.name, ".json") }

\* C10: when a run without -f that follows an interrupted run ends, every
\* input and every piece under xmlsplit has a parsed, split or ignored status.
C10_ResumeParsesAll ==
  (run >= 2 /\ ~options.ForceReparse /\ pc = "done") =>
    \A f \in Inputs :
      /\ XMLFileIndex(f, config) # 0
      /\ SummaryLine(config[XMLFileIndex(f, config)].Status) # "keep"

\* the pieces of input f that are queued for parsing in this run
QueuedPieces(f) ==
  { j \in 1..Len(files) :
      \E k \in 1..NPieces(f.size, options.XMLSplitByteSize) :
        files[j].name = SplitPiece(f, k, options.XMLSplitByteSize).name }

\* C11: in a run with automatic splitting, an input recorded with status
\* "split" has pieces that were produced and are queued for parsing.
C11_SplitHasPieces ==
  (options.AutoSplitFiles /\ pc \notin {"idle", "killed"}) =>
    \A f \in SeqToSet(indir) :
      (XMLFileIndex(f, config) # 0 /\ config[XMLFileIndex(f, config)].Status = <<"split">>)
        => QueuedPieces(f) # {}

\* the line loop returned with "Could not parse file": a structural error
StructuralAbort ==
  /\ wk[0].ps.out = "ret"
  /\ Len(wk[0].ps.msg) >= 3
  /\ SubSeq(wk[0].ps.msg, 1, 3) = <<"Warnbox", "ERROR - ", "Could not parse file">>

\* C12: a file whose parse is aborted by a structural error is recorded in the
\* cache as failed/error and counted as Failed, and as nothing else.
C12_StructuralErrorFails ==
  (pc = "done" /\ StructuralAbort) =>
    /\ config[XMLFileIndex(files[1], config)].Status = <<"failed/error">>
    /\ counts = [NoCounts EXCEPT !.Failed = 1]

\* C13: whatever the lines, the line loop never pops headerPathParts while it
\* is empty, and the worker does not panic.
C13_NeverPopsEmpty == wk[0].ps.out # "panic" /\ pc # "panicked"

\* the worker has sent, and its line loop ended because the lines ran out
EndedByEof == wk[0].st \in {"sending", "done"} /\ wk[0].ps.out = ""

\* C14: a file whose lines end before the loop has reached STATE_FINISHED is
\* reported neither as parsed successfully nor as empty.
C14_EofIsError ==
  (EndedByEof /\ wk[0].ps.state # STATE_FINISHED) =>
    wk[0].res.msg \notin { MsgSuccess(wk[0].fileconfig.InputFileName),
                           MsgEmpty(wk[0].fileconfig.InputFileName) }

\* C15: a worker that has ended with a result other than success has created
\* no file with a final .csv name, and its temporary file is still there.
C15_NoFinalOnFailure ==
  (wk[0].st = "sending" /\ wk[0].res.msg # MsgSuccess(wk[0].fileconfig.InputFileName)) =>
    /\ \A p \in outfiles : ~HasSuffix(p, ".csv")
    /\ \E p \in outfiles : HasSuffix(p, ".incomplete")


\* the values of column c in the occurrences hist, in order
RECURSIVE OccurrencesOf(_, _)
OccurrencesOf(hist, c) ==
  IF hist = << >> THEN << >>
  ELSE (IF Head(hist).h = c THEN << Head(hist).v >> ELSE << >>) \o OccurrencesOf(Tail(hist), c)

\* the separator between two occurrences of a field, as a token
Separator == IF options.ReplaceNewLineFeeds THEN "|" ELSE "\r\n"

\* the columns of the open record
OpenColumns == { wk[0].hist[k].h : k \in 1..Len(wk[0].hist) }

\* the cells of the event row that belong to column c
EventCells(c) == { k \in 1..Len(wk[0].evrow) : wk[0].evrow[k].colid = wk[0].evheaders[c] }

EventIds == { wk[0].evheaders[h] : h \in DOMAIN wk[0].evheaders }

\* the rows of the file so far, the open one included
AllRows == { wk[0].rows[k] : k \in 1..Len(wk[0].rows) } \cup { wk[0].row }
AllEventRows == { wk[0].evrows[k] : k \in 1..Len(wk[0].evrows) } \cup { wk[0].evrow }

\* every name has one id, no two names share an id, and the rows use ids of the table
HeaderTableOk ==
  /\ \A j, k \in 1..Len(wk[0].headers) : wk[0].headers[j] = wk[0].headers[k] => j = k
  /\ \A g, h \in DOMAIN wk[0].evheaders : wk[0].evheaders[g] = wk[0].evheaders[h] => g = h
  /\ \A r \in AllRows : \A c \in DOMAIN r : ColID(wk[0].headers, wk[0].headers[c + 1]) = c
  /\ \A r \in AllRows : DOMAIN r \subseteq 0..(Len(wk[0].headers) - 1)
  /\ \A r \in AllEventRows : \A k \in 1..Len(r) : r[k].colid \in EventIds

\* a step keeps every name of the table and its id
HeaderTableStable ==
  /\ Len(wk'[0].headers) >= Len(wk[0].headers)
  /\ \A k \in 1..Len(wk[0].headers) : wk'[0].headers[k] = wk[0].headers[k]
  /\ DOMAIN wk[0].evheaders \subseteq DOMAIN wk'[0].evheaders
  /\ \A h \in DOMAIN wk[0].evheaders : wk'[0].evheaders[h] = wk[0].evheaders[h]

\* C17: in every state of a parse the header table of the file, and that of
\* an event type, gives each column name exactly one id and no two names the
\* same id; every column id held by a row is the id of a name of the table;
\* and every step keeps the names the table has, with the ids they have (the
\* table only grows, no id is changed or given to another name).
C17_HeaderTable == [](HeaderTableOk) /\ [][HeaderTableStable]_vars

\* a second record uses a column of the first one and adds a new one
C17_Witness ==
  /\ Len(wk[0].rows) = 1
  /\ Len(wk[0].headers) = 2
  /\ Cardinality(DOMAIN wk[0].evheaders) = 4
  /\ \E c \in DOMAIN wk[0].row : c \in DOMAIN wk[0].rows[1]
  /\ \E c \in DOMAIN wk[0].row : c \notin DOMAIN wk[0].rows[1]
  /\ Len(wk[0].evrow) = 2


\* C18: for every configuration and every header table, each column name
\* occurs exactly once in the header row of the output file.
C18_EachColumnOnce ==
  \A r \in 1..Len(wk[0].runs) :
    \A j, k \in 1..Len(wk[0].runs[r]) : wk[0].runs[r][j] = wk[0].runs[r][k] => j = k

\* C20: two runs over the same file with the same configuration give the
\* same column order, whatever the order in which each of them ranges over
\* the header map, also when two names differ in case only.
C20_SameOrder == Len(wk[0].runs) = 2 => wk[0].runs[1] = wk[0].runs[2]


\* the entries of the configuration whose item name is that of the table but for case
MatchingEntries ==
  { k \in 1..Len(wk[0].Config.AuditHeaderConfigs) :
      ToLower(wk[0].Config.AuditHeaderConfigs[k].ItemName)
        = ToLower(ItemNameOf(wk[0].auditType, wk[0].event)) }

\* the header order and the omitted headers of the first matching entry
ExplicitOrder ==
  IF MatchingEntries = {} THEN << >>
  ELSE wk[0].Config.AuditHeaderConfigs[CHOOSE k \in MatchingEntries :
                                         \A j \in MatchingEntries : k <= j].HeaderOrder

OmittedNames ==
  IF MatchingEntries = {} THEN {}
  ELSE SeqToSet(wk[0].Config.AuditHeaderConfigs[CHOOSE k \in MatchingEntries :
                                                  \A j \in MatchingEntries : k <= j].HeadersOmitted)

\* the optional columns that were discovered, in configured order
OptionalDiscovered == SelectSeq(wk[0].Config.HeadersOptional, LAMBDA h : h \in wk[0].headers)

\* the same, with EventBufferType for a table of an event dialect
OptionalEmitted ==
  SelectSeq(wk[0].Config.HeadersOptional,
            LAMBDA h : h \in wk[0].headers \/ (wk[0].event /\ h = "EventBufferType"))

\* s lists the names of S once each, in an order sorted without regard to case
SortedListOf(s, S) ==
  /\ SeqToSet(s) = S
  /\ Len(s) = Cardinality(S)
  /\ \A j, k \in 1..Len(s) : j < k => ~LessFold(s[k], s[j])

\* cols is the list prefix followed by the names of rest, sorted, unless omit-unlisted
ListThenSorted(cols, prefix, rest) ==
  /\ Len(cols) >= Len(prefix)
  /\ SubSeq(cols, 1, Len(prefix)) = prefix
  /\ IF wk[0].Config.OmitUnlisted THEN Len(cols) = Len(prefix)
     ELSE SortedListOf(SubSeq(cols, Len(prefix) + 1, Len(cols)), rest)

\* C19: the column list is the mandatory columns in configured order, then
\* the optional columns that were discovered, then the header order of the
\* entry that matches the audit type without regard to case, then every
\* remaining discovered column sorted without regard to case; with
\* omit-unlisted the remaining columns are left out.
C19_ColumnList ==
  \A r \in 1..Len(wk[0].runs) :
    ListThenSorted(wk[0].runs[r],
                   wk[0].Config.HeadersMandatory \o OptionalDiscovered \o ExplicitOrder,
                   wk[0].headers \ SeqToSet(wk[0].Config.HeadersMandatory \o OptionalDiscovered
                                            \o ExplicitOrder))

\* whether msg_full is added: a normal audit of type log with args.arg and msg in the list
HasMsgFull(cols) ==
  /\ ~wk[0].event
  /\ ToLower(wk[0].auditType) = "log"
  /\ \E k \in 1..(Len(cols) - 1) : cols[k] = "args.arg"
  /\ \E k \in 1..(Len(cols) - 1) : cols[k] = "msg"
  /\ cols[Len(cols)] = "msg_full"

\* cols without the msg_full at its end
WithoutMsgFull(cols) == IF HasMsgFull(cols) THEN SubSeq(cols, 1, Len(cols) - 1) ELSE cols

\* C19 (amended): the column list is the mandatory columns, then the
\* optional columns that were discovered (and EventBufferType for an event
\* dialect), then the header order of the first entry that matches the audit
\* type without regard to case, then, unless omit-unlisted is set, every
\* remaining discovered column that is not on the omitted list of that entry,
\* sorted without regard to case; and msg_full at the end for a normal audit
\* of type log whose list holds args.arg and msg, and only then.
C19_ColumnListAmended ==
  \A r \in 1..Len(wk[0].runs) :
    /\ ListThenSorted(WithoutMsgFull(wk[0].runs[r]),
                      wk[0].Config.HeadersMandatory \o OptionalEmitted \o ExplicitOrder,
                      (wk[0].headers \ SeqToSet(wk[0].Config.HeadersMandatory \o OptionalEmitted
                                                \o ExplicitOrder)) \ OmittedNames)
    /\ (~wk[0].event /\ ToLower(wk[0].auditType) = "log"
        /\ {"args.arg", "msg"} \subseteq SeqToSet(WithoutMsgFull(wk[0].runs[r])))
         => HasMsgFull(wk[0].runs[r])

\* a log audit with a matching entry, an omitted column and msg_full
C19_Witness ==
  /\ Len(wk[0].runs) = 1
  /\ wk[0].auditType = "Log"
  /\ wk[0].Config.HeadersMandatory = << "Hostname" >>
  /\ ExplicitOrder = << "msg", "path" >>
  /\ OmittedNames = { "Path" }
  /\ wk[0].headers = { "path", "Path", "msg", "args.arg" }
  /\ wk[0].Config.HeadersOptional = << >>
  /\ wk[0].runs[1] = << "Hostname", "msg", "path", "args.arg", "msg_full" >>


\* C21: no column of the omitted list of the entry that matches the audit
\* type is in the header row, also when the column is in the mandatory, the
\* optional or the header-order list.
C21_OmittedAbsent ==
  \A r \in 1..Len(wk[0].runs) : \A h \in OmittedNames : h \notin SeqToSet(wk[0].runs[r])


\* the names of the lists that apply to the table: mandatory, optional, header order
ConfiguredNames ==
  SeqToSet(wk[0].Config.HeadersMandatory) \cup SeqToSet(wk[0].Config.HeadersOptional)
  \cup SeqToSet(ExplicitOrder)

\* C22: every column of the header table is in the header row, unless it is
\* on the omitted list of the matching entry, or omit-unlisted is set and the
\* column is in none of the mandatory, optional and header-order lists.
C22_NoColumnDropped ==
  \A r \in 1..Len(wk[0].runs) : \A h \in wk[0].headers :
    \/ h \in SeqToSet(wk[0].runs[r])
    \/ h \in OmittedNames
    \/ wk[0].Config.OmitUnlisted /\ h \notin ConfiguredNames

\* a run keeps a column that no list names, next to one that differs from it in case only
C22_Witness ==
  /\ Len(wk[0].runs) = 2
  /\ ~wk[0].Config.OmitUnlisted
  /\ wk[0].Config.HeadersMandatory = << "path" >>
  /\ OmittedNames = { "msg" }
  /\ wk[0].headers = { "path", "Path", "msg", "args.arg" }
  /\ "Path" \notin ConfiguredNames
  /\ "Path" \in SeqToSet(wk[0].runs[2])
  /\ "msg" \notin SeqToSet(wk[0].runs[2])


\* the worker has written its table with Excel-friendly mode on, and reports success
WrittenExcel ==
  /\ options.ExcelFriendly
  /\ wk[0].st = "sending"
  /\ wk[0].res.msg = MsgSuccess(wk[0].fileconfig.InputFileName)

\* C23: with Excel-friendly mode a table of R data rows is written as one
\* file when R <= 999999 and as numbered files otherwise; every file holds
\* one header row and between 1 and 999999 data rows, and the files together
\* hold the data rows 1..R once each, in order; in the normal dialect and in
\* the event dialects, also when R is a multiple of 999999.
C23_ExcelFiles ==
  WrittenExcel =>
    /\ wk[0].nrows <= ExcelRows => Len(wk[0].parts) = 1
    /\ \A k \in 1..Len(wk[0].parts) :
         /\ wk[0].parts[k].hdr = 1
         /\ wk[0].parts[k].last - wk[0].parts[k].first + 1 \in 1..ExcelRows
    /\ wk[0].parts[1].first = 1
    /\ wk[0].parts[Len(wk[0].parts)].last = wk[0].nrows
    /\ \A k \in 1..(Len(wk[0].parts) - 1) : wk[0].parts[k + 1].first = wk[0].parts[k].last + 1

\* the run is over and its one file is an issues file: an XML declaration,
\* then a line that starts with <issueList
IssuesFileDone ==
  /\ pc = "done"
  /\ Len(files) = 1
  /\ files[1].content = "issues"

\* C24: a file whose first line is an XML declaration and whose second line
\* starts with <issueList gets no output file and no temporary file, is
\* recorded in the cache as ignored/issues, and is counted under Issues and
\* under nothing else.
C24_IssuesFileIgnored ==
  IssuesFileDone =>
    /\ outfiles = {}
    /\ config[XMLFileIndex(files[1], config)].Status = <<"ignored/issues">>
    /\ counts = [NoCounts EXCEPT !.Issues = 1]

\* the statuses the documentation of the cache names
CacheStatuses ==
  { <<"parsed">>, <<"ignored/issues">>, <<"ignored/empty">>, <<"failed/rename">>,
    <<"failed/error">>, <<"failed/notexist">>, <<"split">> }

\* C26: in every cache written to disk, the Status of every XMLFiles entry is
\* one of parsed, ignored/issues, ignored/empty, failed/rename, failed/error,
\* failed/notexist and split, whatever the workers reported.
C26_SavedStatusKnown ==
  \A k \in 1..Len(cachefile.xml) : cachefile.xml[k].Status \in CacheStatuses

\* the run is over, no call of the file system has failed, and the one file
\* is a normal-style audit with no record between <itemList> and </itemList>
EmptyFileDone ==
  /\ pc = "done"
  /\ faults = MaxFaults
  /\ Len(files) = 1
  /\ files[1].content = "empty"

\* C25: a file of a valid schema that yields no data row ends with the status
\* ignored/empty, is counted under Empty and under nothing else, and leaves
\* neither an output file nor a temporary file.
C25_EmptyFileIgnored ==
  EmptyFileDone =>
    /\ outfiles = {}
    /\ config[XMLFileIndex(files[1], config)].Status = <<"ignored/empty">>
    /\ counts = [NoCounts EXCEPT !.Empty = 1]

\* YYYY-MM-DDTHH:MM:SSZ or YYYY-MM-DDTHH:MM:SS.fffZ, digits elsewhere
IsIsoTime(s) ==
  /\ Len(s) \in {20, 24}
  /\ s[5] = "-" /\ s[8] = "-" /\ s[11] = "T" /\ s[14] = ":" /\ s[17] = ":"
  /\ s[Len(s)] = "Z"
  /\ Len(s) = 24 => s[20] = "."
  /\ \A k \in 1..Len(s) : k \notin {5, 8, 11, 14, 17, 20, 24} => s[k] = "1"

\* C28: parse_time changes a value only when it is a timestamp of the form
\* YYYY-MM-DDTHH:MM:SSZ or YYYY-MM-DDTHH:MM:SS.fffZ; every other value,
\* also one of length 19, 20, 23 or 24 with '-', ':' and '.' at the tested
\* positions, is returned as it is.
C28_OnlyIsoRewritten ==
  (wk[0].st = "done" /\ ~IsIsoTime(wk[0].timevalue)) => wk[0].result = wk[0].timevalue

\* the worker has written the tables of its file and reports success
RecordsWritten ==
  /\ wk[0].st = "sending"
  /\ wk[0].res.msg = MsgSuccess(wk[0].fileconfig.InputFileName)

\* the cell of row k of table t under the column called name, << >> when the
\* table has no such column
CellOf(t, k, name) ==
  LET tab == wk[0].csv[t]
  IN IF \E c \in 1..Len(tab.csvHeaders) : tab.csvHeaders[c] = name
     THEN tab.csvRows[k][CHOOSE c \in 1..Len(tab.csvHeaders) : tab.csvHeaders[c] = name]
     ELSE << >>

\* C27: in the event dialects the hits attribute of an event gives its row
\* two derived columns with different names, one that holds the array of
\* the first ids and nothing else, one that holds the array of arrays and
\* nothing else.
C27_HitsTwoColumns ==
  (RecordsWritten /\ wk[0].style = AUDIT_EVENTBUFFER) =>
    \A t \in 1..Len(wk[0].csv) : \A k \in 1..Len(wk[0].csv[t].csvRows) :
      CellOf(t, k, <<"UID">>) # << >> =>
        \E c1, c2 \in 1..Len(wk[0].csv[t].csvHeaders) :
          /\ wk[0].csv[t].csvHeaders[c1] # wk[0].csv[t].csvHeaders[c2]
          /\ wk[0].csv[t].csvRows[k][c1] = HitsExt1(EventHits)
          /\ wk[0].csv[t].csvRows[k][c2] = HitsExt2(EventHits)

\* the records that fed a row of table t, in the order of the file
FedOf(t) == SelectSeq(wk[0].fed, LAMBDA e : e.table = t - 1)

\* the records whose values occur in a CSV row
TagsOf(csvRow) ==
  { n \in 0..(MaxRecords + 1) :
      \E c \in 1..Len(csvRow) : \E j \in 1..Len(csvRow[c]) : << csvRow[c][j] >> = RecTag(n) }

\* the line loop has read the file up to </itemList>
ReadToTheEnd == wk[0].ps.out = "break"

\* C29: in every file written, the k-th data row is built from the k-th
\* record that produced a row of that table and from no other record: rows
\* are not reordered, not duplicated and not merged across records.
C29_RowsFollowRecords ==
  RecordsWritten =>
    \A t \in 1..Len(wk[0].csv) :
      /\ Len(wk[0].csv[t].csvRows) <= Len(FedOf(t))
      /\ ReadToTheEnd => Len(wk[0].csv[t].csvRows) = Len(FedOf(t))
      /\ \A k \in 1..Len(wk[0].csv[t].csvRows) :
           TagsOf(wk[0].csv[t].csvRows[k]) \subseteq { FedOf(t)[k].rec }
      /\ \A j, k \in 1..Len(FedOf(t)) : j < k => FedOf(t)[j].rec < FedOf(t)[k].rec

\* a normal-style file of three records, the second without a field: two
\* rows, the first with the data of record 1, the second with that of record 3
C29_Witness ==
  /\ RecordsWritten
  /\ ReadToTheEnd
  /\ wk[0].style = AUDIT_NORMAL
  /\ wk[0].nrec = 3
  /\ Len(wk[0].csv) = 1
  /\ Len(wk[0].csv[1].csvRows) = 2
  /\ TagsOf(wk[0].csv[1].csvRows[1]) = {1}
  /\ TagsOf(wk[0].csv[1].csvRows[2]) = {3}

\* what the file name (or -pah, -paa) says about the host
NameParts == FileNameParts(wk[0].fileconfig.InputFileName, options)

LastLine(w) == w.lines[Len(w.lines)]

\* the loop, expecting the open line of a record, reads a line that is not
\* </itemList>, not a debug open, and does not open an element of auditType
ReadsOtherOpen ==
  /\ wk[0].st = "running" /\ wk'[0].st = "running"
  /\ wk[0].ps.out = ""
  /\ wk[0].ps.state = STATE_EXPECTING_AUDITITEMOPEN_OR_ITEMLISTCLOSE_OR_DEBUGOPEN
  /\ Len(wk'[0].lines) = Len(wk[0].lines) + 1
  /\ LastLine(wk'[0]).k \notin {"listclose", "debugopen"}
  /\ AuditTypeSubmatch(LastLine(wk'[0])) # ParseAuditType(wk'[0].lines)

\* C31: in the state that expects a record open, a line that is neither the
\* list close nor a debug open and that opens an element whose name is not the
\* record type of the third line aborts the file with an error.
C31_OpenMustMatchType == [][ReadsOtherOpen => wk'[0].ps.out = "ret"]_vars

\* the value the normal loop holds for field A
NormalCell(ps) ==
  IF ColID(ps.headers, <<"A">>) \in DOMAIN ps.row THEN ps.row[ColID(ps.headers, <<"A">>)]
  ELSE <<"(none)">>

\* the value an event loop holds for field A, given its header table and row
EventCell(headers, row) ==
  IF <<"A">> \in DOMAIN headers /\ RowIndex(row, headers[<<"A">>]) # 0
  THEN row[RowIndex(row, headers[<<"A">>])].value
  ELSE <<"(none)">>

MultiClosed == pc = "multi" /\ wk[0].st = "closed"

\* C32: for the same multi-line content, the eventbuffer loop and the
\* stateagentinspector loop hold the same cell value as the normal loop,
\* with ReplaceNewLineFeeds on and off.
C32_SameCellInAllDialects ==
  MultiClosed =>
    /\ EventCell(wk[0].es.allHeaders[wk[0].es.eventTypeID + 1], wk[0].es.row) = NormalCell(wk[0].ps)
    /\ EventCell(wk[0].sv.headers, wk[0].sv.row) = NormalCell(wk[0].ps)

\* the loop of SpecParse reads a line while it expects the close of a debug block
ReadsInDebug ==
  /\ wk[0].st = "running" /\ wk'[0].st = "running"
  /\ wk[0].ps.out = ""
  /\ wk[0].ps.state = STATE_EXPECTING_DEBUGCLOSE
  /\ Len(wk'[0].lines) = Len(wk[0].lines) + 1

\* C33: a line read between a debug open and its debug close leaves the
\* header table, the open row, the rows and the path stack as they were and
\* raises no error; the debug close puts the loop back in the state that
\* expects a record open, the list close or a debug open, any other line
\* leaves it waiting for the close.
C33_DebugCarriesNoData ==
  [][ReadsInDebug =>
       /\ wk'[0].ps.headers = wk[0].ps.headers
       /\ wk'[0].ps.row = wk[0].ps.row
       /\ wk'[0].ps.rows = wk[0].ps.rows
       /\ wk'[0].ps.hpp = wk[0].ps.hpp
       /\ wk'[0].ps.out = ""
       /\ wk'[0].ps.state = IF LastLine(wk'[0]).k = "debugclose"
                            THEN STATE_EXPECTING_AUDITITEMOPEN_OR_ITEMLISTCLOSE_OR_DEBUGOPEN
                            ELSE STATE_EXPECTING_DEBUGCLOSE]_vars

\* a debug block with a field line in it has been read and closed
C33_Witness ==
  /\ pc = "drecv" /\ wk[0].st = "running"
  /\ Len(wk[0].lines) = 5
  /\ wk[0].lines[3].k = "debugopen"
  /\ wk[0].lines[4].k = "single"
  /\ wk[0].lines[5].k = "debugclose"
  /\ wk[0].ps.state = STATE_EXPECTING_AUDITITEMOPEN_OR_ITEMLISTCLOSE_OR_DEBUGOPEN
  /\ wk[0].ps.headers = << >>
  /\ wk[0].ps.out = ""

\* the data rows written for the file, over all its tables
RowsWritten == SumSeq([t \in 1..Len(wk[0].csv) |-> Len(wk[0].csv[t].csvRows)])

\* C34: a file read up to </itemList> and written has as many data rows, over
\* all its tables, as it has records, those without field and without
\* captured attribute included.
C34_OneRowPerRecord == (RecordsWritten /\ ReadToTheEnd) => RowsWritten = wk[0].nrec

\* the sum of the five counters of the summary
CountedFiles == counts.Success + counts.Failed + counts.Cached + counts.Empty + counts.Issues

\* C35: when a run is over every file of the input directory has been counted
\* in exactly one of Parsed, Failed, Cached, Empty and Issues, whatever the
\* message of its worker.
C35_EveryFileCounted == pc = "done" => CountedFiles = Len(indir)

\* the cache knows the name of f with another size: f has changed since
ChangedSince(f) ==
  \E k \in 1..Len(config) :
    config[k].InputFileName = Base(f.name) /\ config[k].InputFileSize # f.size

\* C36: in a run without -f, a file whose size is not the one the cache has
\* for its name is parsed again and its output written again: its worker
\* does not leave the output of the earlier content in place.
C36_ChangedFileReparsed ==
  (run >= 2 /\ ~options.ForceReparse /\ pc = "done") =>
    \A k \in 1..Len(indir) :
      ChangedSince(indir[k]) =>
        \A j \in 1..Len(threadMessages) : threadMessages[j] # MsgExists(indir[k].name)

\* C37: GoAuditXMLSplitter_Start returns for every list of files and every
\* level of -v: it does not stay blocked in a send on c_tqdm; with the
\* progress goroutine (Verbose = 0) it has sent one tick per file, without it
\* none.
C37_SplitterReturns ==
  (pc = "splitter" /\ wk[0].st # "calling") =>
    /\ wk[0].st = "returned"
    /\ wk[0].ticks = IF options.Verbose = 0 THEN Len(files) ELSE 0

\* the lines of the value that have content: the opening line when it has
\* text, the intermediate lines, the closing line when it has text
ContentLines(w) == Len(SelectSeq(w.content, LAMBDA text : text # << >>))

\* the line breaks in a cell value
LineBreaks(value) == Len(SelectSeq(value, LAMBDA tok : tok = "\n"))

\* C38: with ReplaceNewLineFeeds off, the cell of a field whose value spans n
\* source lines has n - 1 line breaks, one between the contents of every two
\* consecutive lines, whether the first content is on the line of the opening
\* tag or on the line after it.  A closing line without text may count as a
\* line of the value or not.
C38_LineBreaksKept ==
  (MultiClosed /\ ~options.ReplaceNewLineFeeds) =>
    LET cell == NormalCell(wk[0].ps)
        last == wk[0].content[Len(wk[0].content)]
    IN /\ \/ LineBreaks(cell) = ContentLines(wk[0]) - 1
          \/ last = << >> /\ LineBreaks(cell) = ContentLines(wk[0])
       /\ \A k \in 1..(Len(cell) - 1) : cell[k] = "\n" \/ cell[k + 1] = "\n"


\* the worker has reported that its file was parsed successfully
ReportsSuccess ==
  wk[0].st = "sending" /\ wk[0].res.msg = MsgSuccess(wk[0].fileconfig.InputFileName)

\* C39: when the worker reports that the file was parsed successfully, no path
\* ending in .incomplete that it created for the file is left in the output
\* directory, with one output file and with the Excel-friendly numbered files.
C39_NoTempAfterSuccess ==
  (pc = "write" /\ ReportsSuccess) => \A p \in outfiles : ~HasSuffix(p, ".incomplete")


\* the statuses of a file whose parsing failed or was not attempted
FailureStatuses ==
  { <<"failed/error">>, <<"failed/rename">>, <<"failed/notexist">>,
    <<"failed/notattemptedyet">> }

\* the positions of the files list that hold input f
QueuedAs(fs, f) == { j \in 1..Len(fs) : fs[j].name = f.name /\ fs[j].size = f.size }

\* a run starts without -f and without -wo and queues every file, input or
\* piece under xmlsplit, whose cached status is a failure
FailedQueued ==
  UnforcedStart =>
    \A f \in SeqToSet(indir) \cup xmlsplit :
      CachedStatus(f) \in FailureStatuses => QueuedAs(files', f) # {}

\* within a run no file is queued twice and no worker is started twice
AttemptedOnce ==
  /\ \A j \in 1..Len(files) : Cardinality(QueuedAs(files, files[j])) = 1
  /\ Len(threadMessages) <= Len(files)

\* C40: a run without -f hands every file whose cached status is
\* failed/error, failed/rename, failed/notexist or failed/notattemptedyet to a
\* worker again, and within one run a file is attempted at most once.
C40_FailedIsRetried == [][FailedQueued]_vars /\ [](AttemptedOnce)

====
